---- MODULE Spec2Model ----
(***************************************************************************)
(* Model of the exception-handling workflow of the repository:             *)
(*   - run_workflow (src/src/workflow_api.py), the HTTP orchestrator that  *)
(*     calls the four collaborators one after the other;                   *)
(*   - create_exception_workflow / run_exception_workflow                  *)
(*     (src/src/langgraph_agents.py) and the four agents it chains         *)
(*     (src/src/agents/*.py), the in-process graph pipeline.               *)
(*                                                                         *)
(* JSON values and Python values are tagged records [tag, v]:              *)
(*   tag = "absent"  the key is not in the object                          *)
(*   tag = "null"    JSON null / Python None                               *)
(*   tag = "val"     a value of the expected type, v                       *)
(* Confidences and scores are integers in percent (90 is 0.90).            *)
(***************************************************************************)
EXTENDS Integers, Sequences, FiniteSets, TLC

(***************************************************************************)
(* Bounds of the model.                                                    *)
(***************************************************************************)
\* longest "sops" list a Retrieval response carries
MaxSops == 2
\* longest "top_predictions" list a Classification response carries
MaxTop == 1

(***************************************************************************)
(* JSON / Python values.                                                   *)
(***************************************************************************)
Val(x) == [tag |-> "val", v |-> x]
AbsentStr == [tag |-> "absent", v |-> ""]
NullStr == [tag |-> "null", v |-> ""]
AbsentInt == [tag |-> "absent", v |-> 0]
NullInt == [tag |-> "null", v |-> 0]
AbsentBool == [tag |-> "absent", v |-> FALSE]
NullBool == [tag |-> "null", v |-> FALSE]
AbsentList == [tag |-> "absent", v |-> <<>>]
NullList == [tag |-> "null", v |-> <<>>]

IsVal(x) == x.tag = "val"
IsNone(x) == x.tag = "null"

\* dict.get(key): the value, or None when the key is absent
Get(field) == IF field.tag = "absent" THEN [tag |-> "null", v |-> field.v] ELSE field

\* dict.get(key, default): the value (None included), or default when the key is absent
GetOr(field, default) == IF field.tag = "absent" THEN Val(default) ELSE field

\* dict[key] raises KeyError exactly when the key is absent
HasKey(field) == field.tag # "absent"

\* f"{x:.4f}" raises on None (and on any non-number); it accepts every number
Formattable(x) == IsVal(x)

\* pydantic accepts a value for a required (non-Optional) field iff it is a
\* value of the field's type; None is rejected
Validates(x) == IsVal(x)

(***************************************************************************)
(* Responses of the collaborators.  kind = "error" is an httpx.RequestError *)
(* (connection refused, timeout, ...); kind = "http" is an answer with a    *)
(* status code and a body.  A body has a shape: "invalid" (not JSON, so     *)
(* resp.json() raises ValueError), "nonobject" (JSON, but not an object) or *)
(* "object".                                                                *)
(***************************************************************************)
StatusCodes == {200, 201, 500}

TheLabel == "Access Issue"

\* the ranked predictions a classifier may report
Ranking == [i \in 1..(MaxTop + 1) |-> [label |-> IF i = 1 THEN TheLabel ELSE "Other", confidence |-> 100 - 10 * i]]

TopLists == {SubSeq(Ranking, 1, n) : n \in 0..MaxTop}

NoBody1 == [shape |-> "none", predicted_label |-> AbsentStr, confidence |-> AbsentInt, top_predictions |-> AbsentList]

Body1Objects == [shape : {"object"}, predicted_label : {Val(TheLabel), AbsentStr, NullStr}, confidence : {Val(90), Val(150), AbsentInt, NullInt}, top_predictions : {AbsentList, NullList} \cup {Val(t) : t \in TopLists}]

Body1Set == Body1Objects \cup {[NoBody1 EXCEPT !.shape = "invalid"], [NoBody1 EXCEPT !.shape = "nonobject"]}

NoResp1 == [kind |-> "none", status |-> 0, body |-> NoBody1]

Resp1Set == {[kind |-> "error", status |-> 0, body |-> NoBody1]} \cup {[kind |-> "http", status |-> s, body |-> NoBody1] : s \in StatusCodes \ {200}} \cup {[kind |-> "http", status |-> 200, body |-> b] : b \in Body1Set}


\* one match of a Retrieval response (SOPResult of sop_retrieval_api.py)
FullMatch == [shape |-> "object", datapoint_id |-> Val("sop_access_issue"), score |-> Val(80), content |-> Val("SOP text")]

OtherMatch == [shape |-> "object", datapoint_id |-> Val("sop_unknown"), score |-> Val(40), content |-> Val("Other SOP text")]

MatchSet == [shape : {"object"}, datapoint_id : {Val("sop_access_issue"), AbsentStr}, score : {Val(80), AbsentInt, NullInt}, content : {Val("SOP text"), AbsentStr}] \cup {[FullMatch EXCEPT !.shape = "nonobject"]}

\* the lists of matches: the first match is any match, the later ones are OtherMatch
SopsLists == {<<>>} \cup {<<m>> \o [i \in 1..n |-> OtherMatch] : m \in MatchSet, n \in 0..(MaxSops - 1)}

AbsentSops == [tag |-> "absent", v |-> <<>>]
NullSops == [tag |-> "null", v |-> <<>>]

NoBody2 == [shape |-> "none", sops |-> AbsentSops]

Body2Set == {[shape |-> "object", sops |-> s] : s \in {AbsentSops, NullSops} \cup {Val(l) : l \in SopsLists}} \cup {[NoBody2 EXCEPT !.shape = "invalid"], [NoBody2 EXCEPT !.shape = "nonobject"]}

NoResp2 == [kind |-> "none", status |-> 0, body |-> NoBody2]

Resp2Set == {[kind |-> "error", status |-> 0, body |-> NoBody2]} \cup {[kind |-> "http", status |-> s, body |-> NoBody2] : s \in StatusCodes \ {200}} \cup {[kind |-> "http", status |-> 200, body |-> b] : b \in Body2Set}

\* the "decision" object of a Decision response (decision_api.py /decide)
EmptyDict == [recommended_action |-> AbsentStr, driver_instruction |-> AbsentStr, customer_message |-> AbsentStr, requires_escalation |-> AbsentBool, confidence |-> AbsentInt, reasoning_summary |-> AbsentStr]

FullDict(esc, conf) == [recommended_action |-> Val("Reattempt delivery"), driver_instruction |-> Val("Use side gate"), customer_message |-> Val("We will retry"), requires_escalation |-> Val(esc), confidence |-> Val(conf), reasoning_summary |-> Val("SOP applies")]

\* the decision objects a response may carry: complete ones, and ones with one
\* field missing or null
DecisionDicts ==
    {FullDict(e, c) : e \in BOOLEAN, c \in {70, 150}} \cup {EmptyDict}
    \cup {[FullDict(TRUE, 70) EXCEPT !.recommended_action = x] : x \in {AbsentStr, NullStr}}
    \cup {[FullDict(TRUE, 70) EXCEPT !.driver_instruction = x] : x \in {AbsentStr, NullStr}}
    \cup {[FullDict(TRUE, 70) EXCEPT !.customer_message = x] : x \in {AbsentStr, NullStr}}
    \cup {[FullDict(TRUE, 70) EXCEPT !.requires_escalation = x] : x \in {AbsentBool, NullBool}}
    \cup {[FullDict(TRUE, 70) EXCEPT !.confidence = x] : x \in {AbsentInt, NullInt}}
    \cup {[FullDict(TRUE, 70) EXCEPT !.reasoning_summary = x] : x \in {AbsentStr, NullStr}}

AbsentDict == [tag |-> "absent", v |-> EmptyDict]
NullDict == [tag |-> "null", v |-> EmptyDict]

NoBody3 == [shape |-> "none", decision |-> AbsentDict]

Body3Set == {[shape |-> "object", decision |-> d] : d \in {AbsentDict, NullDict} \cup {Val(x) : x \in DecisionDicts}} \cup {[NoBody3 EXCEPT !.shape = "invalid"], [NoBody3 EXCEPT !.shape = "nonobject"]}

NoResp3 == [kind |-> "none", status |-> 0, body |-> NoBody3]

Resp3Set == {[kind |-> "error", status |-> 0, body |-> NoBody3]} \cup {[kind |-> "http", status |-> s, body |-> NoBody3] : s \in StatusCodes \ {200}} \cup {[kind |-> "http", status |-> 200, body |-> b] : b \in Body3Set}

\* the body of an Execution response (ActionResponse of action_executor_api.py)
NoBody4 == [shape |-> "none", sheet_updated |-> AbsentBool, email_simulated |-> AbsentBool, escalated |-> AbsentBool, timestamp |-> AbsentStr]

Body4Objects == [shape : {"object"}, sheet_updated : {Val(TRUE), Val(FALSE), AbsentBool, NullBool}, email_simulated : {Val(TRUE)}, escalated : {Val(TRUE), Val(FALSE)}, timestamp : {Val("2024-01-01T00:00:00Z"), AbsentStr}]

Body4Set == Body4Objects \cup {[NoBody4 EXCEPT !.shape = "invalid"], [NoBody4 EXCEPT !.shape = "nonobject"]}

NoResp4 == [kind |-> "none", status |-> 0, body |-> NoBody4]

Resp4Set == {[kind |-> "error", status |-> 0, body |-> NoBody4]} \cup {[kind |-> "http", status |-> s, body |-> NoBody4] : s \in StatusCodes \ {200}} \cup {[kind |-> "http", status |-> 200, body |-> b] : b \in Body4Set}

(***************************************************************************)
(* The request (WorkflowRequest): the seven delivery fields.               *)
(***************************************************************************)
Events == {[driver_note |-> n, gps_deviation_km |-> 0, weather_condition |-> "Clear", attempts |-> 2, hub_delay_minutes |-> 10, package_scan_result |-> "OK", time_of_day |-> "Afternoon"] : n \in {"gate locked", ""}}

\* no request yet
NoEvent == [driver_note |-> "", gps_deviation_km |-> 0, weather_condition |-> "", attempts |-> 0, hub_delay_minutes |-> 0, package_scan_result |-> "", time_of_day |-> ""]

(***************************************************************************)
(* State of one run of run_workflow (workflow_api.py).  The variables are  *)
(* the locals of the handler; pc is its position: "pending" before the     *)
(* first call, "awaitN" while the call to agent N is in flight,            *)
(* "completed" when a WorkflowResponse was returned, "failed" when the     *)
(* handler raised.  calls lists the collaborator calls issued so far.      *)
(***************************************************************************)
VARIABLES pc, data, agents_executed, calls, error, resp1, resp2, resp3, resp4, agent1_result, sop_retrieved, sop_content, sop_score, sop_id, decision, decision_dict, action, agent2_payload, agent3_payload, agent4_payload, response

wvars == <<pc, data, agents_executed, calls, error, resp1, resp2, resp3, resp4, agent1_result, sop_retrieved, sop_content, sop_score, sop_id, decision, decision_dict, action, agent2_payload, agent3_payload, agent4_payload, response>>

\* the graph pipeline's state (described with the pipeline, below)
VARIABLES g_pc, cfg, api_url, llm_credential, nodes, edges, entry, sheets_initialized, worksheet, state, at, invoked, lookup, llm, prompt_sop_text, exec_input, exec_outcome, last_row, final_state, summary, g_error

gvars == <<g_pc, cfg, api_url, llm_credential, nodes, edges, entry, sheets_initialized, worksheet, state, at, invoked, lookup, llm, prompt_sop_text, exec_input, exec_outcome, last_row, final_state, summary, g_error>>

\* one call of ExceptionClassifier.predict (described with it, below)
VARIABLES p_pc, probabilities, top_k, prediction

pvars == <<p_pc, probabilities, top_k, prediction>>

\* one extraction of the decision from a text of the language model (described
\* with it, below)
VARIABLES e_pc, site, llm_content, decision_dict_out

evars == <<e_pc, site, llm_content, decision_dict_out>>

\* the stage whose call was in flight when the caller cancelled the run of
\* run_workflow (0: not cancelled)
VARIABLES cancelled_at

\* the collaborator addresses of the process (workflow_api.py 38-41), and a
\* second run of run_workflow in the same process, kept by its stage, the
\* outcomes of its calls and its agents_executed (described with it, below)
VARIABLES agent_urls, o_pc, o_stage, o_data, o_outcomes, o_executed, o_result

ovars == <<agent_urls, o_pc, o_stage, o_data, o_outcomes, o_executed, o_result>>

\* one call of health_check (described with it, below)
VARIABLES h_pc, h_probes, h_flags, h_result

hvars == <<h_pc, h_probes, h_flags, h_result>>

\* one request to the /execute service (described with it, below)
VARIABLES x_pc, x_decision, x_sheets, x_mail, x_response

xvars == <<x_pc, x_decision, x_sheets, x_mail, x_response>>

vars == <<wvars, gvars, pvars, evars, cancelled_at, ovars, hvars, xvars>>

\* what an action of one component leaves alone: the other components
notw == <<gvars, pvars, evars, cancelled_at, ovars, hvars, xvars>>
notg == <<wvars, pvars, evars, cancelled_at, ovars, hvars, xvars>>
notp == <<wvars, gvars, evars, cancelled_at, ovars, hvars, xvars>>
note == <<wvars, gvars, pvars, cancelled_at, ovars, hvars, xvars>>
noth == <<wvars, gvars, pvars, evars, cancelled_at, ovars, xvars>>
notx == <<wvars, gvars, pvars, evars, cancelled_at, ovars, hvars>>

\* DecisionOutput of workflow_api.py: six typed fields
NoDecisionOutput == [recommended_action |-> "", driver_instruction |-> "", customer_message |-> "", requires_escalation |-> FALSE, confidence |-> 0, reasoning_summary |-> ""]

NoneDecision == [tag |-> "null", v |-> NoDecisionOutput]

\* ActionOutput of workflow_api.py
NoActionOutput == [sheet_updated |-> FALSE, email_simulated |-> FALSE, escalated |-> FALSE, timestamp |-> ""]

NoneAction == [tag |-> "null", v |-> NoActionOutput]

NoPayload2 == [sent |-> FALSE, exception_type |-> NullStr, driver_note |-> "", num_results |-> 0]

NoPayload3 == [sent |-> FALSE, data |-> NoEvent, predicted_label |-> NullStr, confidence |-> NullInt, top_predictions |-> NullList, sop_content |-> NullStr]

NoPayload4 == [sent |-> FALSE, data |-> NoEvent, predicted_label |-> NullStr, confidence |-> NullInt, top_predictions |-> NullList, sop_retrieved |-> FALSE, sop_id |-> NullStr, decision |-> NullDict]

NoResponse == [tag |-> "null", v |-> [predicted_label |-> "", confidence |-> 0, top_predictions |-> <<>>, sop_retrieved |-> FALSE, sop_content |-> NullStr, sop_score |-> NullInt, sop_id |-> NullStr, decision |-> NoneDecision, action |-> NoneAction, agents_executed |-> <<>>, status |-> ""]]

WInit ==
    /\ pc = "pending"
    /\ data = NoEvent
    /\ agents_executed = <<>>
    /\ calls = <<>>
    /\ error = "none"
    /\ resp1 = NoResp1
    /\ resp2 = NoResp2
    /\ resp3 = NoResp3
    /\ resp4 = NoResp4
    /\ agent1_result = NoBody1
    /\ sop_retrieved = FALSE
    /\ sop_content = NullStr
    /\ sop_score = NullInt
    /\ sop_id = NullStr
    /\ decision = NoneDecision
    /\ decision_dict = NullDict
    /\ action = NoneAction
    /\ agent2_payload = NoPayload2
    /\ agent3_payload = NoPayload3
    /\ agent4_payload = NoPayload4
    /\ response = NoResponse
    /\ cancelled_at = 0

(***************************************************************************)
(* run_workflow, one action per stretch of code between two awaits.        *)
(***************************************************************************)

\* StartWorkflow posting to Agent 1 and Agent 2 at once
StartWorkflow_PostsTwo(request) ==
    /\ pc = "pending"
    /\ data' = request
    /\ pc' = "await1"
    /\ agents_executed' = <<>>
    /\ calls' = calls \o <<"agent1", "agent2">>
    /\ UNCHANGED <<error, resp1, resp2, resp3, resp4, agent1_result, sop_retrieved, sop_content, sop_score, sop_id, decision, decision_dict, action, agent2_payload, agent3_payload, agent4_payload, response>>
    /\ UNCHANGED notw

\* workflow_api.py 187-220: a request arrives; the handler starts and posts to
\* Agent 1
StartWorkflow(request) ==
    /\ pc = "pending"
    /\ data' = request
    /\ pc' = "await1"
    /\ agents_executed' = <<>>
    /\ calls' = Append(calls, "agent1")
    /\ UNCHANGED <<error, resp1, resp2, resp3, resp4, agent1_result, sop_retrieved, sop_content, sop_score, sop_id, decision, decision_dict, action, agent2_payload, agent3_payload, agent4_payload, response>>
    /\ UNCHANGED notw

\* Agent1Outcome without the status check of line 222
Agent1Outcome_NoStatusCheck(r) ==
    IF r.kind = "error" THEN "unavailable"
    ELSE IF r.body.shape = "invalid" THEN "bad_json"
    ELSE IF r.body.shape # "object" THEN "crash"
    ELSE IF ~HasKey(r.body.predicted_label) \/ ~HasKey(r.body.confidence) THEN "crash"
    ELSE IF ~Formattable(r.body.confidence) THEN "crash"
    ELSE "ok"

\* How the handler takes the answer of Agent 1 (216-236):
\*   "unavailable"  httpx.RequestError, turned into HTTPException 503
\*   "bad_status"   status_code != 200, HTTPException 502
\*   "bad_json"     resp1.json() raises; nothing catches it
\*   "crash"        the print of line 230 raises after the append of line 229
\*   "ok"
Agent1Outcome(r) ==
    IF r.kind = "error" THEN "unavailable"
    ELSE IF r.status # 200 THEN "bad_status"
    ELSE IF r.body.shape = "invalid" THEN "bad_json"
    ELSE IF r.body.shape # "object" THEN "crash"
    ELSE IF ~HasKey(r.body.predicted_label) \/ ~HasKey(r.body.confidence) THEN "crash"
    ELSE IF ~Formattable(r.body.confidence) THEN "crash"
    ELSE "ok"

\* ErrorOf returning no error
ErrorOf_Silent(outcome) == "none"

\* the error the caller gets for a fatal outcome
ErrorOf(outcome) ==
    CASE outcome = "unavailable" -> "HTTPException 503"
      [] outcome = "bad_status" -> "HTTPException 502"
      [] OTHER -> "unhandled exception"

\* workflow_api.py 243-247
Agent2Payload(a1, d) == [sent |-> TRUE, exception_type |-> a1.predicted_label, driver_note |-> d.driver_note, num_results |-> 1]

\* workflow_api.py 216-258: the answer of Agent 1 arrives; on success the
\* handler goes on to post to Agent 2
Agent1Returns(r) ==
    /\ pc = "await1"
    /\ resp1' = r
    /\ LET o == Agent1Outcome(r) IN
        /\ agents_executed' = IF o \in {"crash", "ok"} THEN Append(agents_executed, "agent1_classification") ELSE agents_executed
        /\ agent1_result' = IF o \in {"crash", "ok"} THEN r.body ELSE agent1_result
        /\ IF o = "ok"
           THEN /\ pc' = "await2"
                /\ agent2_payload' = Agent2Payload(r.body, data)
                /\ calls' = Append(calls, "agent2")
                /\ error' = error
           ELSE /\ pc' = "failed"
                /\ error' = ErrorOf(o)
                /\ UNCHANGED <<agent2_payload, calls>>
    /\ sop_retrieved' = FALSE
    /\ sop_content' = NullStr
    /\ sop_score' = NullInt
    /\ sop_id' = NullStr
    /\ UNCHANGED <<data, resp2, resp3, resp4, decision, decision_dict, action, agent3_payload, agent4_payload, response>>
    /\ UNCHANGED notw

\* line 264: agent2_result.get("sops") and len(agent2_result["sops"]) > 0
SopsFound(body) == IsVal(body.sops) /\ Len(body.sops.v) > 0

\* How the handler takes the answer of Agent 2 (254-278):
\*   "unavailable"  httpx.RequestError, printed and dropped
\*   "bad_status"   status_code != 200, printed and dropped
\*   "bad_json"     resp2.json() raises ValueError; only RequestError is caught
\*   "crash_body"   .get on a body that is no object (after the append of 262)
\*   "crash_match"  .get on a first match that is no object (after line 266)
\*   "crash_score"  the print of line 270 on a score that is None
\*   "empty"        200 and no match
\*   "found"        200 and a usable first match
Agent2Outcome(r) ==
    IF r.kind = "error" THEN "unavailable"
    ELSE IF r.status # 200 THEN "bad_status"
    ELSE IF r.body.shape = "invalid" THEN "bad_json"
    ELSE IF r.body.shape # "object" THEN "crash_body"
    ELSE IF ~SopsFound(r.body) THEN "empty"
    ELSE IF r.body.sops.v[1].shape # "object" THEN "crash_match"
    ELSE IF ~Formattable(Get(r.body.sops.v[1].score)) THEN "crash_score"
    ELSE "found"

\* Agent2Fatal with "no match" raising as well
Agent2Fatal_EmptyRaises(o) == o \in {"bad_json", "crash_body", "crash_match", "crash_score", "empty"}

\* the outcomes of Agent 2 that end the run
Agent2Fatal(o) == o \in {"bad_json", "crash_body", "crash_match", "crash_score"}

\* workflow_api.py 288-300
Agent3Payload(a1, d, content) == [sent |-> TRUE, data |-> d, predicted_label |-> a1.predicted_label, confidence |-> a1.confidence, top_predictions |-> GetOr(a1.top_predictions, <<>>), sop_content |-> content]

\* workflow_api.py 254-307: the answer of Agent 2 arrives; the handler goes
\* on to post to Agent 3
Agent2Returns(r) ==
    /\ pc = "await2"
    /\ resp2' = r
    /\ LET o == Agent2Outcome(r)
           sop == r.body.sops.v[1]
       IN
        /\ agents_executed' = IF o \in {"crash_body", "crash_match", "crash_score", "empty", "found"} THEN Append(agents_executed, "agent2_sop_retrieval") ELSE agents_executed
        /\ sop_retrieved' = (o \in {"crash_match", "crash_score", "found"})
        /\ sop_content' = IF o \in {"crash_score", "found"} THEN Get(sop.content) ELSE sop_content
        /\ sop_score' = IF o \in {"crash_score", "found"} THEN Get(sop.score) ELSE sop_score
        /\ sop_id' = IF o \in {"crash_score", "found"} THEN Get(sop.datapoint_id) ELSE sop_id
        /\ IF Agent2Fatal(o)
           THEN /\ pc' = "failed"
                /\ error' = ErrorOf(o)
                /\ UNCHANGED <<agent3_payload, calls>>
           ELSE /\ pc' = "await3"
                /\ agent3_payload' = Agent3Payload(agent1_result, data, sop_content')
                /\ calls' = Append(calls, "agent3")
                /\ error' = error
    /\ decision' = NoneDecision
    /\ decision_dict' = NullDict
    /\ UNCHANGED <<data, resp1, resp3, resp4, agent1_result, action, agent2_payload, agent4_payload, response>>
    /\ UNCHANGED notw

\* DecisionFields without the defaults: a missing key stays missing
DecisionFields_NoDefaults(d) == d

\* workflow_api.py 313-321: the DecisionOutput built from decision_dict, every
\* missing key replaced by its default
DecisionFields(d) == [recommended_action |-> GetOr(d.recommended_action, ""), driver_instruction |-> GetOr(d.driver_instruction, ""), customer_message |-> GetOr(d.customer_message, ""), requires_escalation |-> GetOr(d.requires_escalation, FALSE), confidence |-> GetOr(d.confidence, 0), reasoning_summary |-> GetOr(d.reasoning_summary, "")]

\* DecisionOutput(...) validates iff every field is a value of its type
DecisionValidates(f) == Validates(f.recommended_action) /\ Validates(f.driver_instruction) /\ Validates(f.customer_message) /\ Validates(f.requires_escalation) /\ Validates(f.confidence) /\ Validates(f.reasoning_summary)

DecisionOutputOf(f) == [recommended_action |-> f.recommended_action.v, driver_instruction |-> f.driver_instruction.v, customer_message |-> f.customer_message.v, requires_escalation |-> f.requires_escalation.v, confidence |-> f.confidence.v, reasoning_summary |-> f.reasoning_summary.v]

\* line 313: agent3_result.get("decision", {})
DecisionDictOf(body) == GetOr(body.decision, EmptyDict)

\* How the handler takes the answer of Agent 3 (302-330); every exception is
\* caught, so no outcome ends the run:
\*   "unavailable"  httpx.RequestError
\*   "bad_status"   status_code != 200
\*   "bad_json"     resp3.json() raises (before the append of line 311)
\*   "crash_body"   .get on a body that is no object (after the append)
\*   "crash_dict"   "decision" is null: None.get raises (decision_dict is set)
\*   "invalid"      DecisionOutput(...) raises a validation error
\*   "ok"
Agent3Outcome(r) ==
    IF r.kind = "error" THEN "unavailable"
    ELSE IF r.status # 200 THEN "bad_status"
    ELSE IF r.body.shape = "invalid" THEN "bad_json"
    ELSE IF r.body.shape # "object" THEN "crash_body"
    ELSE IF ~IsVal(DecisionDictOf(r.body)) THEN "crash_dict"
    ELSE IF ~DecisionValidates(DecisionFields(DecisionDictOf(r.body).v)) THEN "invalid"
    ELSE "ok"

\* Agent3Appended with the append moved after the validation
Agent3Appended_AfterValidation(o) == o = "ok"

\* the outcomes in which line 311 has appended the stage's name
Agent3Appended(o) == o \in {"crash_body", "crash_dict", "invalid", "ok"}

\* workflow_api.py 339-357
Agent4Payload(a1, d, retrieved, id, ddict) == [sent |-> TRUE, data |-> d, predicted_label |-> a1.predicted_label, confidence |-> a1.confidence, top_predictions |-> GetOr(a1.top_predictions, <<>>), sop_retrieved |-> retrieved, sop_id |-> id, decision |-> ddict]

\* workflow_api.py 302-364: the answer of Agent 3 arrives; the handler goes
\* on to post to Agent 4
Agent3Returns(r) ==
    /\ pc = "await3"
    /\ resp3' = r
    /\ LET o == Agent3Outcome(r) IN
        /\ agents_executed' = IF Agent3Appended(o) THEN Append(agents_executed, "agent3_decision") ELSE agents_executed
        /\ decision_dict' = IF o \in {"crash_dict", "invalid", "ok"} THEN DecisionDictOf(r.body) ELSE decision_dict
        /\ decision' = IF o = "ok" THEN Val(DecisionOutputOf(DecisionFields(DecisionDictOf(r.body).v))) ELSE decision
    /\ pc' = "await4"
    /\ agent4_payload' = Agent4Payload(agent1_result, data, sop_retrieved, sop_id, decision_dict')
    /\ calls' = Append(calls, "agent4")
    /\ action' = NoneAction
    /\ UNCHANGED <<data, error, resp1, resp2, resp4, agent1_result, sop_retrieved, sop_content, sop_score, sop_id, agent2_payload, agent3_payload, response>>
    /\ UNCHANGED notw

\* workflow_api.py 370-375: the ActionOutput built from agent4_result
ActionFields(b) == [sheet_updated |-> GetOr(b.sheet_updated, FALSE), email_simulated |-> GetOr(b.email_simulated, FALSE), escalated |-> GetOr(b.escalated, FALSE), timestamp |-> GetOr(b.timestamp, "")]

ActionValidates(f) == Validates(f.sheet_updated) /\ Validates(f.email_simulated) /\ Validates(f.escalated) /\ Validates(f.timestamp)

ActionOutputOf(f) == [sheet_updated |-> f.sheet_updated.v, email_simulated |-> f.email_simulated.v, escalated |-> f.escalated.v, timestamp |-> f.timestamp.v]

\* How the handler takes the answer of Agent 4 (359-386); every exception is
\* caught
Agent4Outcome(r) ==
    IF r.kind = "error" THEN "unavailable"
    ELSE IF r.status # 200 THEN "bad_status"
    ELSE IF r.body.shape = "invalid" THEN "bad_json"
    ELSE IF r.body.shape # "object" THEN "crash_body"
    ELSE IF ~ActionValidates(ActionFields(r.body)) THEN "invalid"
    ELSE "ok"

\* Agent4Appended with the append of line 368 forgotten
Agent4Appended_Never(o) == FALSE

\* the outcomes in which line 368 has appended the stage's name
Agent4Appended(o) == o \in {"crash_body", "invalid", "ok"}

\* workflow_api.py 391-412: WorkflowResponse(...) validates iff the three
\* classification fields are values of their types (the other fields are
\* Optional, or were validated when they were built)
ResponseValidates(a1) == Validates(a1.predicted_label) /\ Validates(a1.confidence) /\ Validates(GetOr(a1.top_predictions, <<>>))

\* workflow_api.py 391-412
BuildResponse(a1, retrieved, content, score, id, dec, act, executed) == [predicted_label |-> a1.predicted_label.v, confidence |-> a1.confidence.v, top_predictions |-> GetOr(a1.top_predictions, <<>>).v, sop_retrieved |-> retrieved, sop_content |-> content, sop_score |-> score, sop_id |-> id, decision |-> dec, action |-> act, agents_executed |-> executed, status |-> "success"]

\* workflow_api.py 359-412: the answer of Agent 4 arrives; the handler
\* builds the response and returns
Agent4Returns(r) ==
    /\ pc = "await4"
    /\ resp4' = r
    /\ LET o == Agent4Outcome(r) IN
        /\ agents_executed' = IF Agent4Appended(o) THEN Append(agents_executed, "agent4_action") ELSE agents_executed
        /\ action' = IF o = "ok" THEN Val(ActionOutputOf(ActionFields(r.body))) ELSE action
    /\ IF ResponseValidates(agent1_result)
       THEN /\ pc' = "completed"
            /\ response' = Val(BuildResponse(agent1_result, sop_retrieved, sop_content, sop_score, sop_id, decision, action', agents_executed'))
            /\ error' = error
       ELSE /\ pc' = "failed"
            /\ error' = "unhandled exception"
            /\ response' = response
    /\ UNCHANGED <<data, calls, resp1, resp2, resp3, agent1_result, sop_retrieved, sop_content, sop_score, sop_id, decision, decision_dict, agent2_payload, agent3_payload, agent4_payload>>
    /\ UNCHANGED notw

WorkflowNext ==
    \/ \E request \in Events : StartWorkflow(request)
    \/ \E r \in Resp1Set : Agent1Returns(r)
    \/ \E r \in Resp2Set : Agent2Returns(r)
    \/ \E r \in Resp3Set : Agent3Returns(r)
    \/ \E r \in Resp4Set : Agent4Returns(r)

\* the stage whose client.post is awaited (0: none)
StageInFlight == CASE pc = "await1" -> 1 [] pc = "await2" -> 2 [] pc = "await3" -> 3 [] pc = "await4" -> 4 [] OTHER -> 0

\* CancellationCaught as it is where asyncio.CancelledError derives from
\* Exception: the handlers of stages 3 and 4 catch it
CancellationCaught_AsException(stage) == stage \in {3, 4}

\* workflow_api.py 232, 276, 327-330, 383-386: asyncio.CancelledError derives
\* from BaseException, so neither "except httpx.RequestError" (all stages)
\* nor "except Exception" (stages 3 and 4) catches it
CancellationCaught(stage) == FALSE

\* The caller cancels the task while client.post of a stage is awaited:
\* CancelledError is raised at the await.  Not caught, it leaves the handler
\* (the client is closed by the async with); caught by the handler of stage
\* 3 or 4, the run would go on as after any other error of that stage.
Cancel ==
    /\ StageInFlight # 0
    /\ cancelled_at = 0
    /\ cancelled_at' = StageInFlight
    /\ IF CancellationCaught(StageInFlight) /\ StageInFlight = 3
       THEN /\ pc' = "await4"
            /\ calls' = Append(calls, "agent4")
            /\ agent4_payload' = Agent4Payload(agent1_result, data, sop_retrieved, sop_id, decision_dict)
            /\ UNCHANGED <<error, response>>
       ELSE IF CancellationCaught(StageInFlight) /\ StageInFlight = 4
       THEN /\ pc' = IF ResponseValidates(agent1_result) THEN "completed" ELSE "failed"
            /\ response' = IF ResponseValidates(agent1_result) THEN Val(BuildResponse(agent1_result, sop_retrieved, sop_content, sop_score, sop_id, decision, action, agents_executed)) ELSE response
            /\ error' = IF ResponseValidates(agent1_result) THEN error ELSE "unhandled exception"
            /\ UNCHANGED <<calls, agent4_payload>>
       ELSE /\ pc' = "cancelled"
            /\ UNCHANGED <<calls, agent4_payload, error, response>>
    /\ UNCHANGED <<data, agents_executed, resp1, resp2, resp3, resp4, agent1_result, sop_retrieved, sop_content, sop_score, sop_id, decision, decision_dict, action, agent2_payload, agent3_payload>>
    /\ UNCHANGED <<gvars, pvars, evars, ovars, hvars, xvars>>

(***************************************************************************)
(* Two runs of run_workflow in one process, interleaved at their awaits.   *)
(* The first is the run above, its answers drawn from the unreachable and  *)
(* the fully valued ones; the second runs the same code and is kept by the *)
(* outcome of each of its calls.  Each call of run_workflow has its own    *)
(* locals (agents_executed = [] at line 197) and its own client (199); the *)
(* module keeps the four addresses, read at import from the environment.   *)
(***************************************************************************)
\* workflow_api.py 38-41
AgentUrls == [AGENT1_URL |-> "agent1", AGENT2_URL |-> "agent2", AGENT3_URL |-> "agent3", AGENT4_URL |-> "agent4"]

\* the answers of S that are a request error, or 200 with an object whose
\* fields all hold values
Few(S) == {r \in S : r.kind = "error" \/ (r.kind = "http" /\ r.status = 200 /\ r.body.shape = "object" /\ \A f \in DOMAIN r.body \ {"shape"} : r.body[f].tag = "val")}

\* of the answers of Retrieval, those with at most one match
FewMatches == {r \in Few(Resp2Set) : Len(r.body.sops.v) <= 1}

\* LocalsShared as it is when agents_executed is a list of the module
LocalsShared_ModuleLevel == TRUE

\* line 197: agents_executed is a local of each call of run_workflow
LocalsShared == FALSE

\* the list the second run appends to
OtherList == IF LocalsShared THEN agents_executed ELSE o_executed

\* the second run stores its list
OtherWrites(list) == IF LocalsShared THEN agents_executed' = list /\ o_executed' = o_executed ELSE o_executed' = list /\ agents_executed' = agents_executed

\* how the handler takes the answers of the stage (Agent1Outcome ..
\* Agent4Outcome)
OtherOutcomes(stage) ==
    CASE stage = 1 -> {Agent1Outcome(r) : r \in Few(Resp1Set)}
      [] stage = 2 -> {Agent2Outcome(r) : r \in FewMatches}
      [] stage = 3 -> {Agent3Outcome(r) : r \in Few(Resp3Set)}
      [] OTHER -> {Agent4Outcome(r) : r \in Few(Resp4Set)}

\* lines 229, 262, 311, 368: the stage's name is appended
OtherAppended(stage, o) ==
    CASE stage = 1 -> o \in {"crash", "ok"}
      [] stage = 2 -> o \in {"crash_body", "crash_match", "crash_score", "empty", "found"}
      [] stage = 3 -> Agent3Appended(o)
      [] OTHER -> Agent4Appended(o)

\* the outcome ends the run with an error
OtherFatal(stage, o) == (stage = 1 /\ o # "ok") \/ (stage = 2 /\ Agent2Fatal(o))

StageName(stage) == <<"agent1_classification", "agent2_sop_retrieval", "agent3_decision", "agent4_action">>[stage]

NoOtherResult == [tag |-> "null", v |-> <<>>]

OtherInit ==
    /\ agent_urls = AgentUrls
    /\ o_pc = "pending"
    /\ o_stage = 0
    /\ o_data = NoEvent
    /\ o_outcomes = <<>>
    /\ o_executed = <<>>
    /\ o_result = NoOtherResult

\* workflow_api.py 187-220, second run
StartOther(request) ==
    /\ o_pc = "pending"
    /\ o_data' = request
    /\ o_pc' = "await"
    /\ o_stage' = 1
    /\ OtherWrites(<<>>)
    /\ UNCHANGED <<agent_urls, o_outcomes, o_result>>
    /\ UNCHANGED <<pc, data, calls, error, resp1, resp2, resp3, resp4, agent1_result, sop_retrieved, sop_content, sop_score, sop_id, decision, decision_dict, action, agent2_payload, agent3_payload, agent4_payload, response>>
    /\ UNCHANGED <<gvars, pvars, evars, cancelled_at, hvars, xvars>>

\* workflow_api.py 216-412, second run: the answer of the stage in flight
\* arrives with outcome o; the handler goes on to the next call, or returns
OtherReturns(o) ==
    /\ o_pc = "await"
    /\ o \in OtherOutcomes(o_stage)
    /\ o_outcomes' = Append(o_outcomes, o)
    /\ LET list == IF OtherAppended(o_stage, o) THEN Append(OtherList, StageName(o_stage)) ELSE OtherList IN
        /\ OtherWrites(list)
        /\ IF OtherFatal(o_stage, o)
           THEN o_pc' = "failed" /\ UNCHANGED <<o_stage, o_result>>
           ELSE IF o_stage < 4
           THEN o_stage' = o_stage + 1 /\ UNCHANGED <<o_pc, o_result>>
           ELSE o_pc' = "completed" /\ o_result' = Val(list) /\ UNCHANGED o_stage
    /\ UNCHANGED <<agent_urls, o_data>>
    /\ UNCHANGED <<pc, data, calls, error, resp1, resp2, resp3, resp4, agent1_result, sop_retrieved, sop_content, sop_score, sop_id, decision, decision_dict, action, agent2_payload, agent3_payload, agent4_payload, response>>
    /\ UNCHANGED <<gvars, pvars, evars, cancelled_at, hvars, xvars>>

TwoRunsNext ==
    \/ \E request \in Events : StartWorkflow(request)
    \/ \E r \in Few(Resp1Set) : Agent1Returns(r)
    \/ \E r \in FewMatches : Agent2Returns(r)
    \/ \E r \in Few(Resp3Set) : Agent3Returns(r)
    \/ \E r \in Few(Resp4Set) : Agent4Returns(r)
    \/ \E request \in Events : StartOther(request)
    \/ \E o \in {"ok", "unavailable", "found", "empty"} : OtherReturns(o)

\* run_workflow with a caller that may cancel it
CancellableNext ==
    \/ \E request \in Events : StartWorkflow(request)
    \/ \E r \in Resp1Set : Agent1Returns(r)
    \/ \E r \in Resp2Set : Agent2Returns(r)
    \/ \E r \in Resp3Set : Agent3Returns(r)
    \/ \E r \in Resp4Set : Agent4Returns(r)
    \/ Cancel


(***************************************************************************)
(* Vocabulary of the claims about run_workflow, stated on the answers the  *)
(* collaborators gave (resp1..resp4), not on how the handler took them.    *)
(***************************************************************************)
Answered(r) == r.kind = "http"
Unreachable(r) == r.kind = "error"
Non200(r) == r.kind = "http" /\ r.status # 200
Ok200(r) == r.kind = "http" /\ r.status = 200
NotJson(r) == Ok200(r) /\ r.body.shape = "invalid"
JsonObject(r) == Ok200(r) /\ r.body.shape = "object"

\* the classification answer carries a label, a confidence and predictions
\* that the response model accepts (a missing top_predictions defaults to [])
ClassificationSucceeded == JsonObject(resp1) /\ IsVal(resp1.body.predicted_label) /\ IsVal(resp1.body.confidence) /\ ~IsNone(resp1.body.top_predictions)

\* the answer carries at least one match
HasMatch(r) == IsVal(r.body.sops) /\ r.body.sops.v # <<>>

\* the retrieval answer is a 200 whose body is an object with no match, or
\* with a first match that has a score
RetrievalSucceeded == JsonObject(resp2) /\ (HasMatch(resp2) => (resp2.body.sops.v[1].shape = "object" /\ IsVal(resp2.body.sops.v[1].score)))

RetrievalSlotsDefault == ~sop_retrieved /\ IsNone(sop_content) /\ IsNone(sop_score) /\ IsNone(sop_id)

ReturnedSuccess == pc = "completed" /\ IsVal(response) /\ response.v.status = "success"

\* C1: whenever the Classification call fails (request error, timeout or a
\* non-200 answer), the run fails with an error, no call to Retrieval,
\* Decision or Execution is issued, and agents_executed is empty.
C1_ClassificationFailureIsFatal == (Unreachable(resp1) \/ Non200(resp1)) => (pc = "failed" /\ error # "none" /\ calls = <<"agent1">> /\ agents_executed = <<>> /\ ~IsVal(response))

C1_Witness == pc = "failed" /\ Non200(resp1) /\ error = "HTTPException 502"

\* the ways the Retrieval stage can fail, as C2 lists them
RetrievalFailed == Unreachable(resp2) \/ Non200(resp2) \/ (Ok200(resp2) /\ resp2.body.shape # "object") \/ (JsonObject(resp2) /\ HasMatch(resp2) /\ (resp2.body.sops.v[1].shape # "object" \/ ~IsVal(resp2.body.sops.v[1].score) \/ ~IsVal(resp2.body.sops.v[1].content)))

\* C2 (as claimed): after a successful Classification every failure of the
\* Retrieval stage is absorbed: the run goes on to Decision and Execution,
\* returns "success", and the retrieval slots keep their defaults.
C2_RetrievalFailureAbsorbed == (ClassificationSucceeded /\ RetrievalFailed) => (pc # "failed" /\ (pc = "completed" => (ReturnedSuccess /\ RetrievalSlotsDefault /\ calls = <<"agent1", "agent2", "agent3", "agent4">>)))

\* the decision answer is usable: a 200 whose body is an object with a
\* "decision" object (or none) whose fields, where present, are well typed
DecisionUsable == JsonObject(resp3) /\ ~IsNone(resp3.body.decision) /\ DecisionValidates(DecisionFields(DecisionDictOf(resp3.body).v))

ExecutionSucceeded == JsonObject(resp4) /\ ActionValidates(ActionFields(resp4.body))

C4_OnlyClassificationIsFatal == ClassificationSucceeded => (pc # "failed" /\ (pc = "completed" => ("agent4" \in {calls[i] : i \in DOMAIN calls} /\ IsVal(response))))

\* every collaborator answered 200 with a body that follows its contract
Healthy1 == JsonObject(resp1) /\ IsVal(resp1.body.predicted_label) /\ IsVal(resp1.body.confidence) /\ resp1.body.confidence.v \in 0..100 /\ IsVal(resp1.body.top_predictions)
Healthy2 == JsonObject(resp2) /\ IsVal(resp2.body.sops) /\ \A i \in DOMAIN resp2.body.sops.v : (resp2.body.sops.v[i].shape = "object" /\ IsVal(resp2.body.sops.v[i].datapoint_id) /\ IsVal(resp2.body.sops.v[i].score))
Healthy3 == JsonObject(resp3) /\ IsVal(resp3.body.decision) /\ (\A f \in DOMAIN resp3.body.decision.v : IsVal(resp3.body.decision.v[f])) /\ resp3.body.decision.v.confidence.v \in 0..100
Healthy4 == JsonObject(resp4) /\ IsVal(resp4.body.sheet_updated) /\ IsVal(resp4.body.email_simulated) /\ IsVal(resp4.body.escalated) /\ IsVal(resp4.body.timestamp)

\* C6: when all four collaborators are healthy and answer well-formed
\* bodies, the run returns "success" and agents_executed is exactly
\* [classification, retrieval, decision, execution], in that order.
C6_HealthyRunRecordsFourStages == (Healthy1 /\ Healthy2 /\ Healthy3 /\ Healthy4) => (ReturnedSuccess /\ agents_executed = <<"agent1_classification", "agent2_sop_retrieval", "agent3_decision", "agent4_action">> /\ response.v.agents_executed = agents_executed)

C6_Witness == Healthy1 /\ Healthy2 /\ Healthy3 /\ Healthy4 /\ pc = "completed" /\ Len(response.v.agents_executed) = 4

\* the retrieval answer is a 200 whose "sops" is an empty list, or is missing
RetrievalEmpty == JsonObject(resp2) /\ ~HasMatch(resp2)

\* C7: Classification succeeded and Retrieval answers 200 with an empty (or
\* missing) list of matches: the run reaches Execution and returns
\* "success" with sop_retrieved = false and no sop_content, sop_score, sop_id.
C7_ZeroMatchesCompletes == (ClassificationSucceeded /\ RetrievalEmpty) => (pc \in {"await3", "await4", "completed"} /\ (pc = "completed" => (ReturnedSuccess /\ calls[4] = "agent4" /\ ~response.v.sop_retrieved /\ IsNone(response.v.sop_content) /\ IsNone(response.v.sop_score) /\ IsNone(response.v.sop_id))))

C7_Witness == ClassificationSucceeded /\ RetrievalEmpty /\ IsVal(resp2.body.sops) /\ pc = "completed" /\ ~response.v.sop_retrieved

(***************************************************************************)
(* The graph pipeline (langgraph_agents.py and agents/*.py).               *)
(*                                                                         *)
(* cfg is the configuration create_exception_workflow is called with: for  *)
(* each identity, whether the argument is given and whether the            *)
(* environment variable is set; api_url says whether the classifier's      *)
(* address is given.  nodes, edges and entry are the graph it              *)
(* builds; llm_credential says whether the environment lets the language   *)
(* model client be constructed.  state is the AgentState dict the nodes    *)
(* are run on, at is the node to run next, invoked lists the nodes run so  *)
(* far.  lookup and llm                                                    *)
(* are what the vector search and the language model answered.  worksheet  *)
(* is the log sheet, last_row the row the executor built, exec_input the   *)
(* state the executor was entered with, summary what                       *)
(* run_exception_workflow prints, final_state what it returns.             *)
(*                                                                         *)
(* AgentState of langgraph_agents.py does not compile as written (line 50, *)
(* "api_url: str," followed by a string-keyed annotation); the functions   *)
(* are modelled as their bodies read, on a state that is a plain dict.     *)
(***************************************************************************)
END == "__end__"

\* the arguments and environment variables of create_exception_workflow: TRUE
\* when the value is given (a non-empty string)
ArgSets == [project_id : BOOLEAN, index_id : BOOLEAN, endpoint_id : BOOLEAN, deployed_index_id : BOOLEAN]

EnvSets == {[GCP_PROJECT_ID |-> p, VERTEX_AI_INDEX_ID |-> i, VERTEX_AI_ENDPOINT_ID |-> i, VERTEX_AI_DEPLOYED_INDEX_ID |-> i] : p \in BOOLEAN, i \in BOOLEAN}

SheetSets == {[sheet_id |-> TRUE, credentials |-> TRUE], [sheet_id |-> TRUE, credentials |-> FALSE], [sheet_id |-> FALSE, credentials |-> FALSE]}

Configs == [arg : ArgSets, env : EnvSets, sheet : SheetSets]

NoConfig == [arg |-> [project_id |-> FALSE, index_id |-> FALSE, endpoint_id |-> FALSE, deployed_index_id |-> FALSE], env |-> [GCP_PROJECT_ID |-> FALSE, VERTEX_AI_INDEX_ID |-> FALSE, VERTEX_AI_ENDPOINT_ID |-> FALSE, VERTEX_AI_DEPLOYED_INDEX_ID |-> FALSE], sheet |-> [sheet_id |-> FALSE, credentials |-> FALSE]]

\* langgraph_agents.py 92-96: each identity is the argument or, failing that,
\* the environment variable
ProjectId(c) == c.arg.project_id \/ c.env.GCP_PROJECT_ID
IndexId(c) == c.arg.index_id \/ c.env.VERTEX_AI_INDEX_ID
EndpointId(c) == c.arg.endpoint_id \/ c.env.VERTEX_AI_ENDPOINT_ID
DeployedIndexId(c) == c.arg.deployed_index_id \/ c.env.VERTEX_AI_DEPLOYED_INDEX_ID

\* SopAgentConfigured without the project identity
SopAgentConfigured_NoProject(c) == IndexId(c) /\ EndpointId(c) /\ DeployedIndexId(c)

\* sop_retrieval_agent.py 132: all([project_id, index_id, endpoint_id,
\* deployed_index_id])
SopAgentConfigured(c) == ProjectId(c) /\ IndexId(c) /\ EndpointId(c) /\ DeployedIndexId(c)

\* DecisionAgentConfigured without the test of line 120
DecisionAgentConfigured_Always(c) == TRUE

\* langgraph_agents.py 120: if project_id or os.getenv("GCP_PROJECT_ID")
DecisionAgentConfigured(c) == ProjectId(c) \/ c.env.GCP_PROJECT_ID

\* langgraph_agents.py 146-155: the nodes added
BuiltNodes(sop_agent, decision_agent) == {"classify", "execute_actions"} \cup (IF sop_agent THEN {"retrieve_sop"} ELSE {}) \cup (IF decision_agent THEN {"make_decision"} ELSE {})

\* BuiltEdges with current_node left at "classify" after line 164
BuiltEdges_StaleCurrentNode(sop_agent, decision_agent) ==
    LET n1 == "classify"
        n2 == IF decision_agent THEN "make_decision" ELSE n1
    IN (IF sop_agent THEN {<<"classify", "retrieve_sop">>} ELSE {})
       \cup (IF decision_agent THEN {<<n1, "make_decision">>} ELSE {})
       \cup {<<n2, "execute_actions">>, <<"execute_actions", END>>}

\* langgraph_agents.py 161-173: the chain of edges, current_node moving along
BuiltEdges(sop_agent, decision_agent) ==
    LET n1 == IF sop_agent THEN "retrieve_sop" ELSE "classify"
        n2 == IF decision_agent THEN "make_decision" ELSE n1
    IN (IF sop_agent THEN {<<"classify", "retrieve_sop">>} ELSE {})
       \cup (IF decision_agent THEN {<<n1, "make_decision">>} ELSE {})
       \cup {<<n2, "execute_actions">>, <<"execute_actions", END>>}

\* google_sheets_agent.py 142-159: the sheet is connected iff a sheet id and
\* credentials are given and _initialize_client does not raise
SheetsConnected(c, connect_ok) == c.sheet.sheet_id /\ c.sheet.credentials /\ connect_ok

\* a value of the wrong type (a number where a string is expected)
BadStr == [tag |-> "bad", v |-> ""]

\* truth value of a string slot: None and "" are false, a number is true
TruthyStr(x) == x.tag = "bad" \/ (x.tag = "val" /\ x.v # "")

\* truth value of a boolean slot: None is false
TruthyBool(x) == x.tag = "val" /\ x.v

\* sop_metadata: the keys retrieve_sop writes (80-84), or {}
EmptyMeta == [keys |-> "empty", datapoint_id |-> "", score |-> 0, exception_type |-> NullStr]

AbsentMeta == [tag |-> "absent", v |-> EmptyMeta]

\* executed_action (action_executor_agent.py 151-159)
NoExecuted == [email_sent |-> FALSE, email_recipient |-> NullStr, sheet_updated |-> FALSE, escalated |-> NullBool, action_taken |-> NullStr, exception_type |-> NullStr]

AbsentExecuted == [tag |-> "absent", v |-> NoExecuted]

\* the AgentState dict before run_exception_workflow fills it
NoState == [data |-> NoEvent, predicted_label |-> AbsentStr, confidence |-> AbsentInt, top_predictions |-> AbsentList, sop_content |-> AbsentStr, sop_text |-> AbsentStr, sop_metadata |-> AbsentMeta, decision_output |-> AbsentDict, executed_action |-> AbsentExecuted]

\* langgraph_agents.py 241-254
InitialState(event) == [NoState EXCEPT !.data = event, !.top_predictions = Val(<<>>), !.sop_metadata = Val(EmptyMeta)]

\* the columns of the logged row the claims are about
\* (google_sheets_agent.py 237-267)
NoRow == [built |-> FALSE, processing_status |-> "", predicted_exception |-> "", sop_retrieved |-> "", sop_id |-> "", recommended_action |-> "", customer_message |-> "", requires_escalation |-> ""]

NoSummary == [printed |-> FALSE, sop_retrieved |-> "", decision_made |-> "", actions_executed |-> ""]

\* what the vector search answered (rag_retrieval.py retrieve_sops and
\* get_sop_content): it raised, or it returned num_results matches, the
\* content of the first one found on disk or not
NoLookup == [kind |-> "none", num_results |-> 0, content_found |-> FALSE]

Lookups == {[kind |-> "raises", num_results |-> 0, content_found |-> FALSE], [kind |-> "ok", num_results |-> 0, content_found |-> FALSE], [kind |-> "ok", num_results |-> 1, content_found |-> FALSE], [kind |-> "ok", num_results |-> 1, content_found |-> TRUE]}

\* what the language model answered: it raised, its text is no JSON, its
\* text is JSON but no object, or it is a JSON object
NoLlm == [kind |-> "none", json |-> EmptyDict]

LlmDicts ==
    {FullDict(e, 70) : e \in BOOLEAN} \cup {EmptyDict}
    \cup {[FullDict(FALSE, 70) EXCEPT !.customer_message = x] : x \in {AbsentStr, NullStr, BadStr}}
    \cup {[FullDict(FALSE, 70) EXCEPT !.recommended_action = NullStr], [FullDict(FALSE, 70) EXCEPT !.confidence = NullInt], [FullDict(FALSE, 70) EXCEPT !.requires_escalation = NullBool]}

LlmAnswers == {[kind |-> k, json |-> EmptyDict] : k \in {"raises", "unparsable", "nonobject"}} \cup {[kind |-> "object", json |-> d] : d \in LlmDicts}

GraphInit ==
    /\ g_pc = "unbuilt"
    /\ cfg = NoConfig
    /\ api_url = FALSE
    /\ llm_credential = FALSE
    /\ nodes = {}
    /\ edges = {}
    /\ entry = ""
    /\ sheets_initialized = FALSE
    /\ worksheet = <<>>
    /\ state = NoState
    /\ at = ""
    /\ invoked = <<>>
    /\ lookup = NoLookup
    /\ llm = NoLlm
    /\ prompt_sop_text = ""
    /\ exec_input = NoState
    /\ exec_outcome = "none"
    /\ last_row = NoRow
    /\ final_state = [tag |-> "null", v |-> NoState]
    /\ summary = NoSummary
    /\ g_error = "none"

\* langgraph_agents.py 63-175.  url: the classifier's address is given (a
\* non-empty api_url); wrapper_ok: SOPRetrievalAgentWrapper(...) does not
\* raise (nothing catches it); llm_ok: create_decision_agent(...) does not
\* raise (line 127 catches it); connect_ok: the sheet can be opened
create_exception_workflow(c, url, wrapper_ok, llm_ok, connect_ok) ==
    /\ g_pc = "unbuilt"
    /\ cfg' = c
    /\ api_url' = url
    /\ llm_credential' = llm_ok
    /\ IF SopAgentConfigured(c) /\ ~wrapper_ok
       THEN /\ g_pc' = "build_failed"
            /\ g_error' = "SOPRetrievalAgentWrapper raised"
            /\ UNCHANGED <<nodes, edges, entry, sheets_initialized>>
       ELSE LET sop_agent == SopAgentConfigured(c)
                decision_agent == DecisionAgentConfigured(c) /\ llm_ok
            IN /\ g_pc' = "built"
               /\ nodes' = BuiltNodes(sop_agent, decision_agent)
               /\ edges' = BuiltEdges(sop_agent, decision_agent)
               /\ entry' = "classify"
               /\ sheets_initialized' = SheetsConnected(c, connect_ok)
               /\ g_error' = g_error
    /\ UNCHANGED <<worksheet, state, at, invoked, lookup, llm, prompt_sop_text, exec_input, exec_outcome, last_row, final_state, summary>>
    /\ UNCHANGED notg

\* langgraph_agents.py 241-261: app.invoke(initial_state) enters the graph
Invoke(event) ==
    /\ g_pc = "built"
    /\ g_pc' = "running"
    /\ state' = InitialState(event)
    /\ at' = entry
    /\ UNCHANGED <<cfg, api_url, llm_credential, nodes, edges, entry, sheets_initialized, worksheet, invoked, lookup, llm, prompt_sop_text, exec_input, exec_outcome, last_row, final_state, summary, g_error>>
    /\ UNCHANGED notg

\* the node the graph runs after n (a node without an edge ends the run)
Successor(n) == IF \E m \in nodes \cup {END} : <<n, m>> \in edges THEN CHOOSE m \in nodes \cup {END} : <<n, m>> \in edges ELSE END

\* How classify takes the answer of the classifier
\* (classification_agent.py 48-78); everything but "ok" is re-raised:
\*   "raise_request"     requests.post raises (as it does on the URL built
\*                       from a missing address)
\*   "raise_status"      status_code != 200
\*   "raise_json"        response.json() raises
\*   "raise_label"       result["predicted_label"] raises
\*   "raise_confidence"  result["confidence"] raises (the label is set)
\*   "raise_print"       a print of 66-70 raises (label and confidence set)
ClassifyOutcome(r) ==
    IF r.kind = "error" THEN "raise_request"
    ELSE IF r.status # 200 THEN "raise_status"
    ELSE IF r.body.shape = "invalid" THEN "raise_json"
    ELSE IF r.body.shape # "object" \/ ~HasKey(r.body.predicted_label) THEN "raise_label"
    ELSE IF ~HasKey(r.body.confidence) THEN "raise_confidence"
    ELSE IF ~Formattable(r.body.confidence) \/ IsNone(r.body.top_predictions) THEN "raise_print"
    ELSE "ok"

\* classification_agent.py 23-78
classify(r) ==
    /\ g_pc = "running"
    /\ at = "classify"
    /\ invoked' = Append(invoked, "classify")
    /\ LET o == IF api_url THEN ClassifyOutcome(r) ELSE "raise_request" IN
        /\ state' = [state EXCEPT !.predicted_label = IF o \in {"raise_confidence", "raise_print", "ok"} THEN r.body.predicted_label ELSE @,
                                  !.confidence = IF o \in {"raise_print", "ok"} THEN r.body.confidence ELSE @]
        /\ IF o = "ok"
           THEN /\ at' = Successor(at)
                /\ UNCHANGED <<g_pc, g_error>>
           ELSE /\ g_pc' = "failed"
                /\ g_error' = "classify raised"
                /\ at' = at
    /\ UNCHANGED <<cfg, api_url, llm_credential, nodes, edges, entry, sheets_initialized, worksheet, lookup, llm, prompt_sop_text, exec_input, exec_outcome, last_row, final_state, summary>>
    /\ UNCHANGED notg

\* sop_retrieval_agent.py 36-98
retrieve_sop(l) ==
    /\ g_pc = "running"
    /\ at = "retrieve_sop"
    /\ invoked' = Append(invoked, "retrieve_sop")
    /\ lookup' = l
    /\ state' =
        IF l.kind = "raises"
        THEN [state EXCEPT !.sop_content = Val("Error retrieving SOP: lookup failed"), !.sop_metadata = Val(EmptyMeta)]
        ELSE IF l.num_results = 0
        THEN [state EXCEPT !.sop_content = Val("No relevant SOP found."), !.sop_metadata = Val(EmptyMeta)]
        ELSE LET text == IF l.content_found THEN "SOP text" ELSE "SOP for the label (ID: sop_access_issue)" IN
             [state EXCEPT !.sop_content = Val(text), !.sop_text = Val(text), !.sop_metadata = Val([keys |-> "datapoint_id, score, exception_type", datapoint_id |-> "sop_access_issue", score |-> 80, exception_type |-> state.predicted_label])]
    /\ at' = Successor(at)
    /\ UNCHANGED <<g_pc, cfg, api_url, llm_credential, nodes, edges, entry, sheets_initialized, worksheet, llm, prompt_sop_text, exec_input, exec_outcome, last_row, final_state, summary, g_error>>
    /\ UNCHANGED notg

\* decision_agent.py 107: state.get("sop_text") or
\* state.get("sop_content", "SOP not available")
PromptSopText(s) == IF TruthyStr(s.sop_text) THEN s.sop_text.v ELSE IF HasKey(s.sop_content) THEN s.sop_content.v ELSE "SOP not available"

\* ParseFallback as an ordinary decision that does not escalate
ParseFallback_NotEscalated == FullDict(FALSE, 50)

\* decision_agent.py 181-188: the decision used when the text is no JSON
ParseFallback == [recommended_action |-> Val("Review exception manually"), driver_instruction |-> Val("Follow standard procedure for this exception type"), customer_message |-> Val("We encountered an issue with your delivery. We will contact you shortly."), requires_escalation |-> Val(TRUE), confidence |-> Val(50), reasoning_summary |-> Val("LLM response could not be parsed.")]

\* decision_agent.py 221-228: the decision used when anything raised
ErrorFallback == [recommended_action |-> Val("Manual review required"), driver_instruction |-> Val("Hold package and await further instructions"), customer_message |-> Val("We encountered an issue with your delivery. We will contact you shortly."), requires_escalation |-> Val(TRUE), confidence |-> Val(0), reasoning_summary |-> Val("Error occurred during decision generation")]

\* decision_agent.py 201-205: every missing key gets its default
WithDefaults(d) == [recommended_action |-> GetOr(d.recommended_action, "Not provided"), driver_instruction |-> GetOr(d.driver_instruction, "Not provided"), customer_message |-> GetOr(d.customer_message, "Not provided"), requires_escalation |-> GetOr(d.requires_escalation, FALSE), confidence |-> GetOr(d.confidence, 50), reasoning_summary |-> GetOr(d.reasoning_summary, "Not provided")]

\* decision_api.py 256-268 (the /decide service): every key missing from the
\* parsed answer of the language model gets its default
RequiredFieldDefaults(d) == [recommended_action |-> GetOr(d.recommended_action, "Manual review required"), driver_instruction |-> GetOr(d.driver_instruction, "Follow standard procedure"), customer_message |-> GetOr(d.customer_message, "We will contact you shortly."), requires_escalation |-> GetOr(d.requires_escalation, FALSE), confidence |-> GetOr(d.confidence, 50), reasoning_summary |-> GetOr(d.reasoning_summary, "Decision generated")]

\* decision_api.py 247-254: the decision of the service when the text is no
\* JSON
ApiParseFallback == [recommended_action |-> Val("Manual review required due to LLM parsing error"), driver_instruction |-> Val("Follow standard procedure for this exception type"), customer_message |-> Val("We encountered an issue with your delivery. We will contact you shortly."), requires_escalation |-> Val(TRUE), confidence |-> Val(30), reasoning_summary |-> Val("LLM response could not be parsed")]

\* decision_api.py 213-294: the answer of /decide for an answer of the
\* language model; whatever raises outside the parse (the call, the loop over
\* a body that is no object, DecisionOutput(...)) is answered 500
Decide(l) ==
    IF l.kind \in {"raises", "nonobject"} THEN [status |-> 500, decision |-> EmptyDict]
    ELSE IF l.kind = "unparsable" THEN [status |-> 200, decision |-> ApiParseFallback]
    ELSE IF DecisionValidates(RequiredFieldDefaults(l.json)) THEN [status |-> 200, decision |-> RequiredFieldDefaults(l.json)]
    ELSE [status |-> 500, decision |-> EmptyDict]

\* decision_agent.py 210-214: the prints slice recommended_action and
\* reasoning_summary and format confidence; they raise unless these are a
\* string, a string and a number
PrintsPass(d) == IsVal(d.recommended_action) /\ IsVal(d.reasoning_summary) /\ Formattable(d.confidence)

\* decision_agent.py 139-229: the decision_output left in the state
DecisionOutputFor(l) ==
    IF l.kind \in {"raises", "nonobject"} THEN ErrorFallback
    ELSE IF l.kind = "unparsable" THEN ParseFallback
    ELSE IF PrintsPass(WithDefaults(l.json)) THEN WithDefaults(l.json)
    ELSE ErrorFallback

\* make_decision that also stores the text it prompted with as sop_text
make_decision_StoresSopText(l) ==
    /\ g_pc = "running"
    /\ at = "make_decision"
    /\ invoked' = Append(invoked, "make_decision")
    /\ llm' = l
    /\ prompt_sop_text' = PromptSopText(state)
    /\ state' = [state EXCEPT !.decision_output = Val(DecisionOutputFor(l)), !.sop_text = Val(PromptSopText(state))]
    /\ at' = Successor(at)
    /\ UNCHANGED <<g_pc, cfg, api_url, llm_credential, nodes, edges, entry, sheets_initialized, worksheet, lookup, exec_input, exec_outcome, last_row, final_state, summary, g_error>>
    /\ UNCHANGED notg

\* decision_agent.py 139-229
make_decision(l) ==
    /\ g_pc = "running"
    /\ at = "make_decision"
    /\ invoked' = Append(invoked, "make_decision")
    /\ llm' = l
    /\ prompt_sop_text' = PromptSopText(state)
    /\ state' = [state EXCEPT !.decision_output = Val(DecisionOutputFor(l))]
    /\ at' = Successor(at)
    /\ UNCHANGED <<g_pc, cfg, api_url, llm_credential, nodes, edges, entry, sheets_initialized, worksheet, lookup, exec_input, exec_outcome, last_row, final_state, summary, g_error>>
    /\ UNCHANGED notg

\* google_sheets_agent.py 209-270
BuildRowFromState(s) ==
    LET d == GetOr(s.decision_output, EmptyDict).v IN
    [built |-> TRUE,
     processing_status |-> IF TruthyBool(Get(d.requires_escalation)) THEN "ESCALATED" ELSE IF TruthyStr(Get(d.recommended_action)) THEN "PROCESSED" ELSE IF TruthyStr(Get(s.predicted_label)) THEN "CLASSIFIED ONLY" ELSE "ERROR",
     predicted_exception |-> IF IsVal(s.predicted_label) THEN s.predicted_label.v ELSE "",
     sop_retrieved |-> IF TruthyStr(Get(s.sop_content)) THEN "Yes" ELSE "No",
     sop_id |-> "",
     recommended_action |-> IF IsVal(d.recommended_action) THEN d.recommended_action.v ELSE "",
     customer_message |-> IF IsVal(d.customer_message) THEN d.customer_message.v ELSE IF d.customer_message.tag = "bad" THEN "42" ELSE "",
     requires_escalation |-> IF TruthyBool(Get(d.requires_escalation)) THEN "Yes" ELSE "No"]

\* EmailOutcome looking at the customer message only
EmailOutcome_MessageOnly(d) == IF TruthyStr(GetOr(d.customer_message, "")) THEN "sent" ELSE "none"

\* action_executor_agent.py 111-140 and 58-70: "none" no mail is due, "sent"
\* the mail is printed, "raises" send_email raises (len of a body that is no
\* string)
EmailOutcome(d) ==
    LET customer_message == GetOr(d.customer_message, "")
        requires_escalation == GetOr(d.requires_escalation, FALSE)
    IN IF ~(TruthyStr(customer_message) \/ TruthyBool(requires_escalation)) THEN "none"
       ELSE IF TruthyBool(requires_escalation) THEN "sent"
       ELSE IF IsVal(customer_message) THEN "sent"
       ELSE "raises"

\* action_executor_agent.py 72-172 with GoogleSheetsAgent.log_to_sheet
\* (google_sheets_agent.py 272-297).  append_ok: worksheet.append_row does
\* not raise
execute_actions(append_ok) ==
    /\ g_pc = "running"
    /\ at = "execute_actions"
    /\ invoked' = Append(invoked, "execute_actions")
    /\ exec_input' = state
    /\ LET d == GetOr(state.decision_output, EmptyDict).v
           mail == EmailOutcome(d)
           requires_escalation == GetOr(d.requires_escalation, FALSE)
           row == BuildRowFromState(state)
           sheet_updated == ~sheets_initialized \/ append_ok
       IN IF mail = "raises"
          THEN /\ g_pc' = "failed"
               /\ g_error' = "execute_actions raised"
               /\ exec_outcome' = "raised"
               /\ UNCHANGED <<state, at, last_row, worksheet>>
          ELSE /\ last_row' = row
               /\ worksheet' = IF sheets_initialized /\ append_ok THEN Append(worksheet, row) ELSE worksheet
               /\ exec_outcome' = IF sheet_updated THEN "logged" ELSE "not_persisted"
               /\ state' = [state EXCEPT !.executed_action = Val([email_sent |-> (mail = "sent"), email_recipient |-> IF mail = "none" THEN NullStr ELSE IF TruthyBool(requires_escalation) THEN Val("dispatcher@example.com") ELSE Val("customer@example.com"), sheet_updated |-> sheet_updated, escalated |-> requires_escalation, action_taken |-> GetOr(d.recommended_action, "No action determined"), exception_type |-> GetOr(state.predicted_label, "Unknown")])]
               /\ at' = Successor(at)
               /\ UNCHANGED <<g_pc, g_error>>
    /\ UNCHANGED <<cfg, api_url, llm_credential, nodes, edges, entry, sheets_initialized, lookup, llm, prompt_sop_text, final_state, summary>>
    /\ UNCHANGED notg

\* langgraph_agents.py 261-289: app.invoke returns; the summary is printed
\* and the final state returned
run_exception_workflow_returns ==
    /\ g_pc = "running"
    /\ at = END
    /\ g_pc' = "done"
    /\ final_state' = Val(state)
    /\ summary' = [printed |-> TRUE,
                   sop_retrieved |-> IF TruthyStr(Get(state.sop_content)) THEN "Yes" ELSE "No",
                   decision_made |-> IF IsVal(state.decision_output) THEN "Yes" ELSE "No",
                   actions_executed |-> IF IsVal(state.executed_action) THEN "Yes" ELSE "No"]
    /\ UNCHANGED <<cfg, api_url, llm_credential, nodes, edges, entry, sheets_initialized, worksheet, state, at, invoked, lookup, llm, prompt_sop_text, exec_input, exec_outcome, last_row, g_error>>
    /\ UNCHANGED notg

GraphNext ==
    \/ \E c \in Configs, url \in BOOLEAN, wrapper_ok \in BOOLEAN, llm_ok \in BOOLEAN, connect_ok \in BOOLEAN : create_exception_workflow(c, url, wrapper_ok, llm_ok, connect_ok)
    \/ \E event \in Events : Invoke(event)
    \/ \E r \in Resp1Set : classify(r)
    \/ \E l \in Lookups : retrieve_sop(l)
    \/ \E l \in LlmAnswers : make_decision(l)
    \/ \E append_ok \in BOOLEAN : execute_actions(append_ok)
    \/ run_exception_workflow_returns

(***************************************************************************)
(* ExceptionClassifier.predict (classification_model/inference_pipeline.py *)
(* 219-241): the ranking of the classes by probability.  probabilities is  *)
(* the model's output for the input (one weight per class; only the order  *)
(* of the weights matters), top_k the number of predictions asked for,     *)
(* prediction the dict returned.                                           *)
(***************************************************************************)
\* number of classes of the label encoder
NumClasses == 3
\* largest weight of a class
MaxProb == 2
\* largest top_k asked for
MaxTopK == 4

\* label_encoder.inverse_transform([idx])[0]: one label per class index
LabelOf(idx) == <<"Access Issue", "Address Issue", "Weather Delay", "Damaged Package", "Hub Delay">>[idx]

ProbVectors == UNION {[1..n -> 0..MaxProb] : n \in 1..NumClasses}

NoPrediction == [predicted_label |-> "", confidence |-> 0, top_predictions |-> <<>>]

\* np.argsort(p): the orders of the indices in which the values ascend; the
\* order of equal values is not fixed (the default sort is not stable)
ArgSorts(p) == {f \in [DOMAIN p -> DOMAIN p] : (\A i, j \in DOMAIN p : i # j => f[i] # f[j]) /\ (\A i, j \in DOMAIN p : i < j => p[f[i]] <= p[f[j]])}

\* a[-k:] for k >= 1: the last k elements, all of them when there are fewer
LastK(a, k) == SubSeq(a, IF Len(a) > k THEN Len(a) - k + 1 ELSE 1, Len(a))

\* a[::-1]
Reversed(a) == [i \in 1..Len(a) |-> a[Len(a) + 1 - i]]

\* TopIndices without the reversal
TopIndices_NoReverse(sorted, k) == LastK(sorted, k)

\* line 219: np.argsort(probabilities)[-top_k:][::-1]
TopIndices(sorted, k) == Reversed(LastK(sorted, k))

\* np.argmax(p): the first index of the largest value
ArgMax(p) == CHOOSE i \in DOMAIN p : (\A j \in DOMAIN p : p[j] <= p[i]) /\ (\A j \in DOMAIN p : j < i => p[j] < p[i])

\* lines 222-241: the dict built from the indices
PredictionOf(p, top_indices) == [predicted_label |-> LabelOf(ArgMax(p)), confidence |-> p[ArgMax(p)], top_predictions |-> [i \in 1..Len(top_indices) |-> [label |-> LabelOf(top_indices[i]), confidence |-> p[top_indices[i]]]]]

\* no call of predict
PredictIdle ==
    /\ p_pc = "idle"
    /\ probabilities = <<>>
    /\ top_k = 0
    /\ prediction = NoPrediction

\* a call of predict with its inputs
PredictInit ==
    /\ p_pc = "called"
    /\ probabilities \in ProbVectors
    /\ top_k \in 1..MaxTopK
    /\ prediction = NoPrediction

\* inference_pipeline.py 215-241
predict ==
    /\ p_pc = "called"
    /\ \E sorted \in ArgSorts(probabilities) : prediction' = PredictionOf(probabilities, TopIndices(sorted, top_k))
    /\ p_pc' = "returned"
    /\ UNCHANGED <<probabilities, top_k>>
    /\ UNCHANGED notp

(***************************************************************************)
(* The extraction of the decision from the text of the language model:     *)
(* parse_llm_response with its caller (decision_api.py 157-170, 240-254)   *)
(* and the same steps inside DecisionAgent.make_decision                   *)
(* (agents/decision_agent.py 164-189).  The text is a sequence of tokens   *)
(* separated by white space: "prose" (words that are no JSON), "fence_json"*)
(* (```json), "fence" (```) and "payload" (the text of one JSON object).   *)
(***************************************************************************)
\* longest text, in tokens
MaxTokens == 5

Tokens == {"prose", "fence_json", "fence", "payload"}

\* the object the payload token is the text of
ThePayload == FullDict(FALSE, 70)

Contents == UNION {[1..n -> Tokens] : n \in 0..MaxTokens}

\* content.startswith("```json") -> content[7:], then
\* content.startswith("```") -> content[3:]: the second test is made on what
\* the first left, which begins with the white space after the mark
StripOpening(c) == IF c # <<>> /\ c[1] \in {"fence_json", "fence"} THEN Tail(c) ELSE c

\* content.endswith("```") -> content[:-3]
StripClosing(c) == IF c # <<>> /\ c[Len(c)] = "fence" THEN SubSeq(c, 1, Len(c) - 1) ELSE c

\* decision_api.py 159-169, decision_agent.py 166-173
StripFences(c) == StripClosing(StripOpening(c))

\* json.loads: the text must be one JSON value and nothing else
JsonLoads(c) == IF c = <<"payload">> THEN [ok |-> TRUE, json |-> ThePayload] ELSE [ok |-> FALSE, json |-> EmptyDict]

NoExtraction == EmptyDict

\* no extraction
ExtractIdle ==
    /\ e_pc = "idle"
    /\ site = "none"
    /\ llm_content = <<>>
    /\ decision_dict_out = NoExtraction

\* a text arrives from the language model, in the service or in the agent
ExtractInit ==
    /\ e_pc = "called"
    /\ site \in {"api", "agent"}
    /\ llm_content \in Contents
    /\ decision_dict_out = NoExtraction

\* decision_api.py 240-254 with parse_llm_response (157-170)
parse_llm_response ==
    /\ e_pc = "called"
    /\ site = "api"
    /\ LET loaded == JsonLoads(StripFences(llm_content)) IN decision_dict_out' = IF loaded.ok THEN loaded.json ELSE ApiParseFallback
    /\ e_pc' = "returned"
    /\ UNCHANGED <<site, llm_content>>
    /\ UNCHANGED note

\* decision_agent.py 164-189
make_decision_parse ==
    /\ e_pc = "called"
    /\ site = "agent"
    /\ LET loaded == JsonLoads(StripFences(llm_content)) IN decision_dict_out' = IF loaded.ok THEN loaded.json ELSE ParseFallback
    /\ e_pc' = "returned"
    /\ UNCHANGED <<site, llm_content>>
    /\ UNCHANGED note

(***************************************************************************)
(* health_check (workflow_api.py 141-183): four probes in turn, each in    *)
(* its own try with a bare except, then the aggregate.  h_probes are the   *)
(* answers of the probes made so far, h_flags the agentN_healthy locals.   *)
(***************************************************************************)
\* what a GET /health of a collaborator gives: a raised error, or a status
ProbeAnswers == {[kind |-> "error", status |-> 0]} \cup {[kind |-> "http", status |-> c] : c \in StatusCodes}

\* ProbeHealthy counting any answer as healthy
ProbeHealthy_AnyAnswer(o) == o.kind = "http"

\* lines 151, 157, 163, 169: resp.status_code == 200; after an exception the
\* flag keeps its False
ProbeHealthy(o) == o.kind = "http" /\ o.status = 200

NoHealth == [status |-> "", agents |-> <<>>]

\* no call of health_check
HealthIdle ==
    /\ h_pc = "idle"
    /\ h_probes = <<>>
    /\ h_flags = <<>>
    /\ h_result = NoHealth

\* lines 143-146: the handler starts, the four flags False
HealthInit ==
    /\ h_pc = "probing"
    /\ h_probes = <<>>
    /\ h_flags = <<FALSE, FALSE, FALSE, FALSE>>
    /\ h_result = NoHealth

\* lines 149-172: the next probe is answered
probe(o) ==
    /\ h_pc = "probing"
    /\ Len(h_probes) < 4
    /\ h_probes' = Append(h_probes, o)
    /\ h_flags' = [h_flags EXCEPT ![Len(h_probes) + 1] = ProbeHealthy(o)]
    /\ UNCHANGED <<h_pc, h_result>>
    /\ UNCHANGED noth

\* lines 174-183
health_check_returns ==
    /\ h_pc = "probing"
    /\ Len(h_probes) = 4
    /\ h_pc' = "returned"
    /\ h_result' = [status |-> IF h_flags[1] /\ h_flags[2] /\ h_flags[3] /\ h_flags[4] THEN "healthy" ELSE "degraded", agents |-> h_flags]
    /\ UNCHANGED <<h_probes, h_flags>>
    /\ UNCHANGED noth

(***************************************************************************)
(* The /execute service (action_executor_api.py 238-288), the form of the  *)
(* Execution stage run_workflow posts to.  x_sheets says what the sheet    *)
(* does with the row: "simulation" (no sheet configured), "appends",       *)
(* "raises".  x_mail is the notification the handler has printed.          *)
(***************************************************************************)
\* the decision of a request: None, or a dict whose three keys the handler reads
ExecuteDecisions == {NullDict} \cup {Val([EmptyDict EXCEPT !.recommended_action = a, !.customer_message = m, !.requires_escalation = e]) : a \in {Val("Reattempt delivery"), AbsentStr, NullStr}, m \in {Val("We will retry"), Val(""), AbsentStr}, e \in {Val(TRUE), Val(FALSE), AbsentBool, NullBool}}

SheetModes == {"simulation", "appends", "raises"}

NoExecuteResponse == [tag |-> "null", v |-> NoActionOutput]

\* no request to /execute
ExecuteIdle ==
    /\ x_pc = "idle"
    /\ x_decision = NullDict
    /\ x_sheets = "simulation"
    /\ x_mail = "none"
    /\ x_response = NoExecuteResponse

\* a request arrives at /execute; the service runs in a process of its own
ExecuteRequest(d, sheets) ==
    /\ x_pc = "idle"
    /\ g_pc = "unbuilt"
    /\ x_pc' = "called"
    /\ x_decision' = d
    /\ x_sheets' = sheets
    /\ UNCHANGED <<x_mail, x_response>>
    /\ UNCHANGED notx

\* lines 273-280 with the test inverted: the dispatcher is written to unless
\* escalation is required
ApiMail_Inverted(customer_message, requires_escalation) ==
    IF ~(TruthyStr(customer_message) \/ TruthyBool(requires_escalation)) THEN "none"
    ELSE IF TruthyBool(requires_escalation) THEN "customer" ELSE "dispatcher"

\* lines 273-280: the notification printed
ApiMail(customer_message, requires_escalation) ==
    IF ~(TruthyStr(customer_message) \/ TruthyBool(requires_escalation)) THEN "none"
    ELSE IF TruthyBool(requires_escalation) THEN "dispatcher" ELSE "customer"

\* action_executor_api.py 245-288.  The handler raises (a 500 answer) when
\* the simulation print slices a recommended_action that is None (line 264),
\* and when ActionResponse rejects an escalated that is None (282-288); the
\* second happens after the notification was printed
ExecuteReturns ==
    /\ x_pc = "called"
    /\ LET dec == IF IsVal(x_decision) THEN x_decision.v ELSE EmptyDict
           requires_escalation == GetOr(dec.requires_escalation, FALSE)
           customer_message == GetOr(dec.customer_message, "")
           sheet_updated == x_sheets \in {"simulation", "appends"}
           mail == ApiMail(customer_message, requires_escalation)
       IN IF x_sheets = "simulation" /\ ~IsVal(GetOr(dec.recommended_action, "N/A"))
          THEN /\ x_pc' = "failed"
               /\ UNCHANGED <<x_mail, x_response>>
          ELSE /\ x_mail' = mail
               /\ IF Validates(requires_escalation)
                  THEN /\ x_pc' = "returned"
                       /\ x_response' = Val([sheet_updated |-> sheet_updated, email_simulated |-> (mail # "none"), escalated |-> requires_escalation.v, timestamp |-> "2024-01-01T00:00:00Z"])
                  ELSE /\ x_pc' = "failed"
                       /\ UNCHANGED x_response
    /\ UNCHANGED <<x_decision, x_sheets>>
    /\ UNCHANGED notx

(***************************************************************************)
(* Specifications: one run of run_workflow, one build and run of the       *)
(* graph, one call of predict, one extraction.                             *)
(***************************************************************************)
Init == WInit /\ OtherInit /\ GraphInit /\ PredictIdle /\ ExtractIdle /\ HealthIdle /\ ExecuteIdle

Spec == Init /\ [][WorkflowNext]_vars

\* the answer of the call in flight arrives
AnswerArrives ==
    \/ \E r \in Resp1Set : Agent1Returns(r)
    \/ \E r \in Resp2Set : Agent2Returns(r)
    \/ \E r \in Resp3Set : Agent3Returns(r)
    \/ \E r \in Resp4Set : Agent4Returns(r)

\* run_workflow when every call eventually returns, fails or times out (the
\* client has a timeout: 60 s at line 199, 90 s and 30 s at 306 and 363)
SpecLive == Init /\ [][WorkflowNext]_vars /\ WF_vars(AnswerArrives)

SpecGraph == Init /\ [][GraphNext]_vars

SpecTwoRuns == Init /\ [][TwoRunsNext]_vars

SpecCancel == Init /\ [][CancellableNext]_vars

InitPredict == WInit /\ OtherInit /\ GraphInit /\ PredictInit /\ ExtractIdle /\ HealthIdle /\ ExecuteIdle

SpecPredict == InitPredict /\ [][predict]_vars

ExtractNext ==
    \/ parse_llm_response
    \/ make_decision_parse

InitExtract == WInit /\ OtherInit /\ GraphInit /\ PredictIdle /\ ExtractInit /\ HealthIdle /\ ExecuteIdle

SpecExtract == InitExtract /\ [][ExtractNext]_vars

InitHealth == WInit /\ OtherInit /\ GraphInit /\ PredictIdle /\ ExtractIdle /\ HealthInit /\ ExecuteIdle

HealthNext ==
    \/ \E o \in ProbeAnswers : probe(o)
    \/ health_check_returns

SpecHealth == InitHealth /\ [][HealthNext]_vars

\* the graph pipeline, while no request to /execute has arrived
GraphStage == x_pc = "idle" /\ GraphNext

\* the Execution stage in its two forms, each explored with the other idle
ExecutionNext ==
    \/ GraphStage
    \/ \E d \in ExecuteDecisions, sheets \in SheetModes : ExecuteRequest(d, sheets)
    \/ ExecuteReturns

SpecExecution == Init /\ [][ExecutionNext]_vars

(***************************************************************************)
(* Vocabulary of the claims about the graph pipeline.                      *)
(***************************************************************************)
\* create_exception_workflow returned a graph
Built == g_pc \in {"built", "running", "done", "failed"}

Invoked(n) == \E i \in DOMAIN invoked : invoked[i] = n

\* an identity is present in the configuration: as an argument or in the
\* environment
HasProject == cfg.arg.project_id \/ cfg.env.GCP_PROJECT_ID
HasIndex == cfg.arg.index_id \/ cfg.env.VERTEX_AI_INDEX_ID
HasEndpoint == cfg.arg.endpoint_id \/ cfg.env.VERTEX_AI_ENDPOINT_ID
HasDeployedIndex == cfg.arg.deployed_index_id \/ cfg.env.VERTEX_AI_DEPLOYED_INDEX_ID

\* the stages a stage leads to
Out(n) == {m \in nodes \cup {END} : <<n, m>> \in edges}

\* the stages met from n on, following the edges for at most k steps
RECURSIVE Path(_, _)
Path(n, k) == IF n = END \/ k = 0 \/ Out(n) = {} THEN <<>> ELSE <<n>> \o Path(CHOOSE m \in Out(n) : TRUE, k - 1)

Chain == Path(entry, Cardinality(nodes) + 1)

Position(n) == CHOOSE i \in DOMAIN Chain : Chain[i] = n

\* the Execution call was made and did not yield an action record: it
\* raised, timed out, answered non-200, or answered a body that is none
ExecutionFailed4 == resp4.kind # "none" /\ ~ExecutionSucceeded

\* the result of run_workflow carries what the earlier stages computed
RunWorkflowKeepsRecord == ReturnedSuccess /\ response.v.predicted_label = resp1.body.predicted_label.v /\ response.v.confidence = resp1.body.confidence.v /\ response.v.sop_retrieved = sop_retrieved /\ response.v.sop_content = sop_content /\ response.v.sop_score = sop_score /\ response.v.sop_id = sop_id /\ response.v.decision = decision /\ IsNone(response.v.action)

\* the result of the graph carries what the earlier stages computed
GraphKeepsRecord == g_pc = "done" /\ IsVal(final_state) /\ final_state.v.predicted_label = exec_input.predicted_label /\ final_state.v.confidence = exec_input.confidence /\ final_state.v.sop_content = exec_input.sop_content /\ final_state.v.sop_metadata = exec_input.sop_metadata /\ final_state.v.decision_output = exec_input.decision_output

\* C5, the run_workflow half: Classification succeeded and the Execution
\* call raised, timed out, answered non-200 or answered a body that is no
\* action record: the run returns, with the classification, retrieval and
\* decision values the earlier stages computed.
C5_RunWorkflowHalf == (pc \in {"completed", "failed"} /\ ClassificationSucceeded /\ ExecutionFailed4) => RunWorkflowKeepsRecord

\* C5, the graph half: the Execution stage raised, or its write to the sheet
\* raised: the run returns the state with the values of the earlier stages.
C5_GraphHalf == (g_pc \in {"done", "failed"} /\ exec_outcome \in {"raised", "not_persisted"}) => GraphKeepsRecord

\* C5 (as claimed): when the Execution stage fails outright the run still
\* returns a result whose classification, retrieval and decision fields are
\* the values computed by the earlier stages, in run_workflow and in the
\* graph alike.
C5_ExecutionFailureKeepsRecord == C5_RunWorkflowHalf /\ C5_GraphHalf

\* the lookup of the Retrieval stage found nothing, or raised
RetrievalMissed == lookup.kind = "raises" \/ (lookup.kind = "ok" /\ lookup.num_results = 0)

\* C8 (as claimed): in the graph pipeline, when the Retrieval stage finds
\* zero matches or its lookup raises, the logged row (column "SOP
\* Retrieved") and the run summary say that no SOP was retrieved.
C8_MissedRetrievalIsNotFound == RetrievalMissed => ((last_row.built => last_row.sop_retrieved = "No") /\ (summary.printed => summary.sop_retrieved = "No"))

\* C9: every graph create_exception_workflow builds is a single linear
\* chain: it starts at Classification, ends at Execution, every stage leads
\* to exactly one stage, each stage appears exactly once, Retrieval and
\* Decision (when present) lie strictly between the two ends, and a run
\* that returns has run exactly the stages of the chain, in order.
C9_BuiltGraphIsLinearChain == Built => (/\ entry = "classify"
                                        /\ edges \subseteq (nodes \X (nodes \cup {END}))
                                        /\ \A n \in nodes : Cardinality(Out(n)) = 1
                                        /\ Len(Chain) = Cardinality(nodes)
                                        /\ {Chain[i] : i \in DOMAIN Chain} = nodes
                                        /\ Chain[1] = "classify"
                                        /\ Chain[Len(Chain)] = "execute_actions"
                                        /\ Out("execute_actions") = {END}
                                        /\ \A n \in nodes \cap {"retrieve_sop", "make_decision"} : 1 < Position(n) /\ Position(n) < Len(Chain)
                                        /\ (g_pc = "done" => invoked = Chain))

C9_Witness == g_pc = "done" /\ invoked = <<"classify", "retrieve_sop", "make_decision", "execute_actions">>

\* C10 (as claimed): a built graph includes the Retrieval stage if and only
\* if index, endpoint and deployed-index identity are all present; when
\* one is missing the stage is omitted and never invoked.
C10_RetrievalIffThreeIdentities == Built => (("retrieve_sop" \in nodes <=> (HasIndex /\ HasEndpoint /\ HasDeployedIndex)) /\ ("retrieve_sop" \notin nodes => ~Invoked("retrieve_sop")))

\* C10 (amended): a built graph includes the Retrieval stage if and only if
\* project, index, endpoint and deployed-index identity are all present;
\* when one is missing the stage is omitted, is never invoked, no lookup is
\* made and the state never gets a sop_content.
C10_RetrievalIffFourIdentities == Built => (("retrieve_sop" \in nodes <=> (HasProject /\ HasIndex /\ HasEndpoint /\ HasDeployedIndex)) /\ ("retrieve_sop" \notin nodes => (~Invoked("retrieve_sop") /\ lookup = NoLookup /\ ~HasKey(state.sop_content) /\ (g_pc = "done" => ~HasKey(final_state.v.sop_content)))))

C10_Witness == g_pc = "done" /\ ~HasProject /\ HasIndex /\ HasEndpoint /\ HasDeployedIndex /\ "retrieve_sop" \notin nodes /\ invoked = <<"classify", "execute_actions">>

\* the stages that lead to n
In(n) == {m \in nodes : <<m, n>> \in edges}

\* C11: a built graph includes the Decision stage if and only if the LLM
\* project identity is present and the LLM client can be constructed with
\* the credentials at hand; when included, its only predecessor is
\* Retrieval if Retrieval is present, and Classification otherwise.
C11_DecisionIffLlmConfigured == Built => (("make_decision" \in nodes <=> (HasProject /\ llm_credential)) /\ ("make_decision" \in nodes => In("make_decision") = (IF "retrieve_sop" \in nodes THEN {"retrieve_sop"} ELSE {"classify"})) /\ ("make_decision" \notin nodes => ~Invoked("make_decision")))

C11_Witness == g_pc = "done" /\ HasProject /\ llm_credential /\ "retrieve_sop" \notin nodes /\ invoked = <<"classify", "make_decision", "execute_actions">>

\* C12 (as claimed): whenever the classifier's address is missing, building
\* the pipeline fails and no stage sequence is produced.
C12_MissingAddressFailsBuild == (g_pc # "unbuilt" /\ ~api_url) => (g_pc = "build_failed" /\ nodes = {} /\ edges = {} /\ invoked = <<>>)

\* the classification call failed, or its answer is not one the contract
\* accepts: a field is missing, or the confidence is outside [0, 1]
Non2xx(r) == r.kind = "http" /\ r.status \notin 200..299

ClassificationUnacceptable(r) == Unreachable(r) \/ Non2xx(r) \/ (Ok200(r) /\ (r.body.shape # "object" \/ ~IsVal(r.body.predicted_label) \/ ~IsVal(r.body.confidence) \/ r.body.confidence.v \notin 0..100 \/ ~IsVal(r.body.top_predictions)))

\* C13 (as claimed): whenever the classifier's answer lacks predicted_label,
\* confidence or the top_predictions list, carries a confidence outside
\* [0, 1], is non-2xx or timed out, the run fails and nothing is passed on
\* to a later stage.
C13_UnacceptableClassificationRejected == (resp1.kind # "none" /\ ClassificationUnacceptable(resp1)) => (pc = "failed" /\ calls = <<"agent1">> /\ ~agent2_payload.sent /\ ~IsVal(response))

\* C14: for every probability vector and every top_k >= 1, the
\* top_predictions returned by predict are sorted by non-increasing
\* confidence, name no label twice, and are at most top_k (exactly
\* min(top_k, number of classes)).
C14_TopPredictionsSortedDistinct == p_pc = "returned" => LET t == prediction.top_predictions IN
    /\ \A i, j \in DOMAIN t : i < j => t[i].confidence >= t[j].confidence
    /\ \A i, j \in DOMAIN t : i # j => t[i].label # t[j].label
    /\ Len(t) <= top_k
    /\ Len(t) = (IF top_k < Len(probabilities) THEN top_k ELSE Len(probabilities))
    /\ \A i \in DOMAIN t : \E c \in DOMAIN probabilities : t[i].label = LabelOf(c) /\ t[i].confidence = probabilities[c]
    /\ \A c \in DOMAIN probabilities : (\A i \in DOMAIN t : t[i].label # LabelOf(c)) => probabilities[c] <= t[Len(t)].confidence

C14_Witness == p_pc = "returned" /\ top_k = 2 /\ Len(probabilities) = 3 /\ Len(prediction.top_predictions) = 2 /\ prediction.top_predictions[1].confidence > prediction.top_predictions[2].confidence

\* the six fields of a decision
SixFields == {"recommended_action", "driver_instruction", "customer_message", "requires_escalation", "confidence", "reasoning_summary"}

\* a decision object that lacks some of the six keys, the keys it has holding
\* values of their types
MissesFields(d) == (\E f \in SixFields : d[f].tag = "absent") /\ (\A f \in SixFields : d[f].tag \in {"absent", "val"})

\* the decision objects with any keys missing
PartialDicts == {d \in [recommended_action : {AbsentStr, Val("Reattempt delivery")}, driver_instruction : {AbsentStr, Val("Use side gate")}, customer_message : {AbsentStr, Val("We will retry")}, requires_escalation : {AbsentBool, Val(TRUE)}, confidence : {AbsentInt, Val(70)}, reasoning_summary : {AbsentStr, Val("SOP applies")}] : MissesFields(d)}

\* the "decision" object of the Decision answer ({} when the key is missing)
AnsweredDecision == IF resp3.body.decision.tag = "absent" THEN EmptyDict ELSE resp3.body.decision.v

\* dd is d completed: the keys d has keep their values, the others hold a
\* value, requires_escalation false
Completes(dd, d) == \A f \in SixFields : IsVal(dd[f]) /\ (IsVal(d[f]) => dd[f] = d[f]) /\ ((f = "requires_escalation" /\ ~IsVal(d[f])) => dd[f] = Val(FALSE))

\* C15: when the Decision answer lacks any of the six fields, run_workflow
\* produces a decision with all six (the answered ones kept,
\* requires_escalation false when missing), goes on to Execution and
\* returns success with that decision; the same completion is made by
\* DecisionAgent.make_decision and by the /decide service.
C15_MissingFieldsDefaulted ==
    /\ (ClassificationSucceeded /\ JsonObject(resp3) /\ resp3.body.decision.tag # "null" /\ MissesFields(AnsweredDecision)) =>
        /\ IsVal(decision)
        /\ DOMAIN decision.v = SixFields
        /\ \A f \in SixFields : IsVal(AnsweredDecision[f]) => decision.v[f] = AnsweredDecision[f].v
        /\ ~IsVal(AnsweredDecision.requires_escalation) => decision.v.requires_escalation = FALSE
        /\ pc \in {"await4", "completed"}
        /\ calls = <<"agent1", "agent2", "agent3", "agent4">>
        /\ pc = "completed" => (ReturnedSuccess /\ response.v.decision = decision)
    /\ \A d \in PartialDicts : Completes(WithDefaults(d), d) /\ Completes(RequiredFieldDefaults(d), d) /\ DecisionOutputFor([kind |-> "object", json |-> d]) = WithDefaults(d)

C15_Witness == pc = "completed" /\ ClassificationSucceeded /\ JsonObject(resp3) /\ IsVal(resp3.body.decision) /\ resp3.body.decision.v.requires_escalation = AbsentBool /\ IsVal(resp3.body.decision.v.confidence) /\ IsVal(decision) /\ ~decision.v.requires_escalation /\ ReturnedSuccess

\* the text of the language model is no JSON
ParseFailed(l) == l.kind = "unparsable"

\* d escalates and its reasoning names the parse failure
NamesParseFailure(d) == d.requires_escalation = Val(TRUE) /\ d.reasoning_summary \in {Val("LLM response could not be parsed."), Val("LLM response could not be parsed")}

\* C16: once make_decision has run, whatever the language model did, the
\* record holds a decision_output with all six keys and the graph goes on to
\* execute_actions; when the text could not be parsed that decision
\* escalates and its reasoning names the parse failure (also in the /decide
\* service, which answers 200 with such a decision).
C16_ParseFailureYieldsFallback ==
    /\ Invoked("make_decision") =>
        /\ IsVal(state.decision_output)
        /\ \A f \in SixFields : state.decision_output.v[f].tag # "absent"
        /\ ParseFailed(llm) => NamesParseFailure(state.decision_output.v)
        /\ llm.kind \in {"raises", "nonobject"} => state.decision_output.v.requires_escalation = Val(TRUE)
        /\ g_error # "make_decision raised"
        /\ invoked[Len(invoked)] = "make_decision" => (g_pc = "running" /\ at = "execute_actions")
    /\ \A l \in LlmAnswers : ParseFailed(l) => (Decide(l).status = 200 /\ NamesParseFailure(Decide(l).decision) /\ \A f \in SixFields : IsVal(Decide(l).decision[f]))

C16_Witness == g_pc = "done" /\ Invoked("make_decision") /\ ParseFailed(llm) /\ NamesParseFailure(final_state.v.decision_output.v) /\ IsVal(final_state.v.executed_action)

\* the text is one payload with, around it, a code fence, leading prose,
\* trailing prose, or any combination of them
Wrapped(c) == \E lead, trail, fenced \in BOOLEAN, open \in {"fence_json", "fence"} : (lead \/ trail \/ fenced) /\ c = (IF lead THEN <<"prose">> ELSE <<>>) \o (IF fenced THEN <<open>> ELSE <<>>) \o <<"payload">> \o (IF fenced THEN <<"fence">> ELSE <<>>) \o (IF trail THEN <<"prose">> ELSE <<>>)

\* C17 (as claimed): from every text that is one JSON object wrapped in a
\* code fence, leading prose, trailing prose or any combination, the
\* extraction returns exactly that object, never the parse-failure fallback.
C17_WrappedPayloadExtracted == (e_pc = "returned" /\ Wrapped(llm_content)) => decision_dict_out = ThePayload

\* a row was appended to the sheet during the call of execute_actions (the
\* sheet is empty before it)
RowAppended == worksheet # <<>>

\* C18 (as claimed): when execute_actions has run with the sheet unavailable
\* or unconfigured the stage has completed and the graph goes on, and the
\* sheet_updated it reports is true iff a row was appended during the call.
C18_SheetUpdatedIffAppended == (Invoked("execute_actions") /\ exec_outcome \in {"logged", "not_persisted"}) => (IsVal(state.executed_action) /\ g_pc \in {"running", "done"} /\ (state.executed_action.v.sheet_updated <=> RowAppended))

Recorded(r) == r.kind = "http" /\ r.status = 200 /\ r.body.shape # "invalid"

\* the names a run records for the answers it got
ExpectedExecuted(r1, r2, r3, r4) == (IF Recorded(r1) THEN <<"agent1_classification">> ELSE <<>>) \o (IF Recorded(r2) THEN <<"agent2_sop_retrieval">> ELSE <<>>) \o (IF Recorded(r3) THEN <<"agent3_decision">> ELSE <<>>) \o (IF Recorded(r4) THEN <<"agent4_action">> ELSE <<>>)

\* the same for the run kept by its outcomes
RECURSIVE ExpectedOfOutcomes(_, _)
ExpectedOfOutcomes(outcomes, k) == IF k = 0 THEN <<>> ELSE ExpectedOfOutcomes(outcomes, k - 1) \o (IF outcomes[k] \in {"unavailable", "bad_status", "bad_json"} THEN <<>> ELSE <<<<"agent1_classification", "agent2_sop_retrieval", "agent3_decision", "agent4_action">>[k]>>)

\* each run's agents_executed and result are those of its own input and
\* answers
RunsIndependent ==
    /\ agents_executed = ExpectedExecuted(resp1, resp2, resp3, resp4)
    /\ pc = "completed" => (response.v.agents_executed = agents_executed /\ response.v.predicted_label = resp1.body.predicted_label.v /\ response.v.sop_retrieved = HasMatch(resp2) /\ IsVal(response.v.decision) = DecisionUsable /\ IsVal(response.v.action) = ExecutionSucceeded)
    /\ pc # "pending" => data \in Events
    /\ o_executed = ExpectedOfOutcomes(o_outcomes, Len(o_outcomes))
    /\ o_pc = "completed" => o_result = Val(ExpectedOfOutcomes(o_outcomes, 4))
    /\ o_pc = "pending" => o_result = NoOtherResult

\* C20: two runs of run_workflow interleaved at their collaborator calls do
\* not affect one another (each run's agents_executed and result are those
\* of its own input and of the answers to its own calls), and the
\* collaborator addresses, the only state of the process, are never written.
C20_RunsDoNotInterfere == []RunsIndependent /\ [][agent_urls' = agent_urls]_vars

C20_Witness == pc = "completed" /\ o_pc = "completed" /\ Len(agents_executed) = 4 /\ o_executed = <<"agent1_classification", "agent4_action">> /\ response.v.agents_executed # o_result.v /\ data # o_data

\* the slots of the shared record each stage owns
Owns(n) ==
    CASE n = "classify" -> {"predicted_label", "confidence", "top_predictions"}
      [] n = "retrieve_sop" -> {"sop_content", "sop_text", "sop_metadata"}
      [] n = "make_decision" -> {"decision_output"}
      [] n = "execute_actions" -> {"executed_action"}
      [] OTHER -> {}

\* the step changes the slot f of the record
Changes(f) == state'[f] # state[f]

\* C21: in a run of the graph a slot of the shared record changes only in
\* the step of the stage that owns it, so no later stage rewrites it, and
\* the input fields (data) are changed by no stage.
C21_StagesWriteOwnSlots == [][g_pc = "running" => \A f \in DOMAIN state : Changes(f) => (invoked' = Append(invoked, invoked'[Len(invoked')]) /\ f \in Owns(invoked'[Len(invoked')]))]_vars

C21_Witness == g_pc = "done" /\ invoked = <<"classify", "retrieve_sop", "make_decision", "execute_actions">> /\ IsVal(state.predicted_label) /\ IsVal(state.sop_text) /\ IsVal(state.decision_output) /\ IsVal(state.executed_action) /\ state.data \in Events /\ final_state = Val(state)

\* C22 (as claimed): in every result of run_workflow the classification
\* confidence and, when a decision is present, the decision confidence lie in
\* [0,1] (0..100 percent), whatever the collaborators answered.
C22_ConfidencesInUnitInterval == (pc = "completed" /\ IsVal(response)) => (response.v.confidence \in 0..100 /\ (IsVal(response.v.decision) => response.v.decision.v.confidence \in 0..100))

\* the probe answered 200
Answered200(o) == o.kind = "http" /\ o.status = 200

\* C23: health_check makes the four probes whatever the earlier ones gave,
\* each flag it returns is true exactly when that probe answered 200, and
\* the status is "healthy" iff the four flags are true, else "degraded".
C23_HealthProbesAllFour ==
    /\ h_pc = "probing" => \A i \in 1..Len(h_probes) : h_flags[i] = Answered200(h_probes[i])
    /\ h_pc = "returned" =>
        /\ Len(h_probes) = 4
        /\ Len(h_result.agents) = 4
        /\ \A i \in 1..4 : h_result.agents[i] = Answered200(h_probes[i])
        /\ h_result.status \in {"healthy", "degraded"}
        /\ h_result.status = "healthy" <=> \A i \in 1..4 : h_result.agents[i]

C23_Witness == h_pc = "returned" /\ h_probes[1].kind = "error" /\ h_probes[2].status = 500 /\ h_result.agents = <<FALSE, FALSE, TRUE, TRUE>> /\ h_result.status = "degraded"

StageOrder == <<"agent1_classification", "agent2_sop_retrieval", "agent3_decision", "agent4_action">>

\* the place of a stage's name in the fixed order
OrderOf(name) == CHOOSE i \in 1..4 : StageOrder[i] = name

\* s is a prefix of t
IsPrefix(s, t) == Len(s) <= Len(t) /\ s = SubSeq(t, 1, Len(s))

\* the answer of the call of stage i has arrived (or the call has failed)
Returned(i) == <<resp1, resp2, resp3, resp4>>[i].kind # "none"

\* agents_executed names stages of the fixed order, in that order, none twice
OrderedSubsequence == (\A i \in DOMAIN agents_executed : agents_executed[i] \in {StageOrder[k] : k \in 1..4}) /\ (\A i, j \in DOMAIN agents_executed : i < j => OrderOf(agents_executed[i]) < OrderOf(agents_executed[j]))

\* the calls issued are those of stages 1..k, each after the one before it
\* has returned
CallsSequential == IsPrefix(calls, <<"agent1", "agent2", "agent3", "agent4">>) /\ (\A i \in 1..3 : Len(calls) > i => Returned(i))

\* C24: at every point of a run of run_workflow agents_executed is a
\* duplicate-free subsequence of the four stage names in their fixed order and
\* only grows by appending, and the call of stage i+1 is issued only after
\* the call of stage i has returned or failed.
C24_ExecutedAppendOnlyInOrder == [](OrderedSubsequence /\ CallsSequential) /\ [][IsPrefix(agents_executed, agents_executed') /\ IsPrefix(calls, calls') /\ Len(calls') <= Len(calls) + 1]_vars

C24_Witness == pc = "completed" /\ agents_executed = <<"agent1_classification", "agent3_decision", "agent4_action">> /\ calls = <<"agent1", "agent2", "agent3", "agent4">> /\ Unreachable(resp2)

\* how far a run is: pending, the stage in flight, final
Rank == CASE pc = "pending" -> 0 [] pc = "await1" -> 1 [] pc = "await2" -> 2 [] pc = "await3" -> 3 [] pc = "await4" -> 4 [] OTHER -> 5

Final == pc \in {"completed", "failed"}

\* C25: when every collaborator call eventually returns, fails or times out,
\* a started run of run_workflow eventually reaches COMPLETED (a result is
\* returned, no error) or FAILED (an error, no result), every step moves it
\* forward, and a final state is never left.
C25_RunTerminates ==
    /\ (pc # "pending") ~> Final
    /\ [](pc \in {"pending", "await1", "await2", "await3", "await4", "completed", "failed"})
    /\ [](pc = "completed" => (IsVal(response) /\ error = "none"))
    /\ [](pc = "failed" => (~IsVal(response) /\ error # "none"))
    /\ [][(Rank' > Rank) /\ ~Final]_vars

C25_Witness == pc = "failed" /\ calls = <<"agent1", "agent2">> /\ error = "unhandled exception" /\ ~IsVal(response)

Listed(name) == \E i \in 1..Len(response.v.agents_executed) : response.v.agents_executed[i] = name

\* C26 (as claimed): in every result run_workflow returns, the decision slot
\* is present if and only if "agent3_decision" is in agents_executed, and the
\* action slot is present if and only if "agent4_action" is.
C26_ListedIffSlotUsable ==
    (pc = "completed" /\ IsVal(response)) =>
        /\ IsVal(response.v.decision) <=> Listed("agent3_decision")
        /\ IsVal(response.v.action) <=> Listed("agent4_action")

\* the six values of the dict handed to Execution are those of the reported decision
SameSixFields(handed, reported) == \A f \in SixFields : IsVal(handed[f]) /\ handed[f].v = reported[f]

\* C27 (as claimed): in every completed run of run_workflow the decision in
\* the payload posted to Execution and the decision of the returned result
\* are both absent, or both present with the same six field values.
C27_HandedDecisionIsReported ==
    (pc = "completed" /\ IsVal(response)) =>
        IF IsVal(response.v.decision)
        THEN IsVal(agent4_payload.decision) /\ SameSixFields(agent4_payload.decision.v, response.v.decision.v)
        ELSE ~IsVal(agent4_payload.decision)

\* C28 (as claimed): in every result run_workflow returns, sop_retrieved true
\* means sop_content, sop_id and sop_score are all present and sop_retrieved
\* false means all three are absent; the sop_content posted to Decision is a
\* text exactly when sop_retrieved is true.
C28_SopSlotsFollowFlag ==
    (pc = "completed" /\ IsVal(response)) =>
        /\ response.v.sop_retrieved => (IsVal(response.v.sop_content) /\ IsVal(response.v.sop_id) /\ IsVal(response.v.sop_score))
        /\ ~response.v.sop_retrieved => (~IsVal(response.v.sop_content) /\ ~IsVal(response.v.sop_id) /\ ~IsVal(response.v.sop_score))
        /\ IsVal(agent3_payload.sop_content) <=> response.v.sop_retrieved

\* C29 (as claimed): for every probability vector, ties included, the
\* predicted_label and confidence predict returns are the label and the
\* confidence of the first entry of its top_predictions.
C29_PredictedIsFirstOfTop ==
    (p_pc = "returned" /\ Len(prediction.top_predictions) >= 1) =>
        /\ prediction.predicted_label = prediction.top_predictions[1].label
        /\ prediction.confidence = prediction.top_predictions[1].confidence

\* the decision a stage received asks for escalation / carries a customer message
AsksEscalation(received) == IsVal(received) /\ received.v.requires_escalation = Val(TRUE)
CarriesMessage(received) == IsVal(received) /\ IsVal(received.v.customer_message) /\ received.v.customer_message.v # ""

\* the /execute service has answered
ServiceAnswered == x_pc = "returned" /\ IsVal(x_response)

\* the execute_actions node has written its summary
NodeAnswered == Invoked("execute_actions") /\ IsVal(state.executed_action)

\* C30: the Execution stage, as the /execute service and as the
\* execute_actions node, reports escalated = true exactly when the decision
\* it received has requires_escalation true, and false when it received none;
\* when it escalates it issues a notification, to the dispatcher and not to
\* the customer; with neither customer message nor escalation it issues none.
C30_EscalationFollowsDecision ==
    /\ ServiceAnswered =>
        /\ x_response.v.escalated <=> AsksEscalation(x_decision)
        /\ x_response.v.escalated => (x_response.v.email_simulated /\ x_mail = "dispatcher")
        /\ (~CarriesMessage(x_decision) /\ ~AsksEscalation(x_decision)) => (~x_response.v.email_simulated /\ x_mail = "none")
    /\ (x_pc = "failed" /\ x_mail = "dispatcher") => AsksEscalation(x_decision)
    /\ NodeAnswered =>
        LET received == exec_input.decision_output
            executed == state.executed_action.v
        IN /\ executed.escalated = Val(TRUE) <=> AsksEscalation(received)
           /\ ~IsVal(received) => executed.escalated = Val(FALSE)
           /\ executed.escalated = Val(TRUE) => (executed.email_sent /\ executed.email_recipient = Val("dispatcher@example.com"))
           /\ (~CarriesMessage(received) /\ ~AsksEscalation(received)) => (~executed.email_sent /\ executed.email_recipient = NullStr)

C30_Witness == ServiceAnswered /\ x_decision = Val([EmptyDict EXCEPT !.recommended_action = Val("Reattempt delivery"), !.customer_message = Val("We will retry"), !.requires_escalation = Val(TRUE)]) /\ x_response.v.escalated /\ x_response.v.email_simulated /\ x_mail = "dispatcher"

\* the node's side of the same case
NodeEscalatedToDispatcher == NodeAnswered /\ AsksEscalation(exec_input.decision_output) /\ CarriesMessage(exec_input.decision_output) /\ state.executed_action.v.escalated = Val(TRUE) /\ state.executed_action.v.email_recipient = Val("dispatcher@example.com")

====
